---- MODULE Spec2Model ----
(***************************************************************************)
(* Multi-tenant retail back office (FastAPI + SQLAlchemy): the tenant      *)
(* scoped tables (employees, employee_labels, stores, products), the       *)
(* handlers that write them and the read handlers, modelled as one state   *)
(* machine.  A handler is one atomic action unless a specification says    *)
(* otherwise (the concurrent specifications split a handler at its         *)
(* database round trips).                                                  *)
(*                                                                         *)
(* Strings are sequences of one-character strings, so that str(),          *)
(* f-strings, lower() and ILIKE are computed and not assumed.              *)
(***************************************************************************)
EXTENDS Integers, Sequences, FiniteSets, TLC

VARIABLES
    employees,      \* employees table: emp_id -> row
    emp_seq,        \* employee_emp_id_seq: next emp_id
    bus_seq,        \* employee_business_id_seq: next business_id
    business,       \* business table: id -> row
    stores,         \* stores table: id -> row
    store_seq,      \* stores.id serial
    labels,         \* employee_labels table: id -> row
    label_seq,      \* employee_labels.id serial
    products,       \* products table: id -> row
    product_seq,    \* products.id serial
    response,       \* the answer of the last request
    inflight,       \* requests between two database round trips
    g_created,      \* history: successful create_store calls per tenant
    g_deleted,      \* history: tenants that deleted a store
    g_last_cf,      \* history: custom_fields of the last write per employee
    g_ever,         \* history: instance values ever recorded per tenant, label
    custom_labels,      \* custom_labels table: id -> row
    custom_label_seq,   \* custom_labels.id serial
    creating,           \* create_custom_label requests between query and insert
    business_seq,       \* business.id serial
    otp_storage,        \* utils/otp_service.py: email -> entry
    now,                \* datetime.now(), in minutes
    g_used,             \* history: emails whose OTP was verified and not stored again
    storing,            \* create_store requests between count and insert
    updating            \* update_employee requests between their commits

vars == <<employees, emp_seq, bus_seq, business, stores, store_seq, labels,
          label_seq, products, product_seq, response, inflight,
          g_created, g_deleted, g_last_cf, g_ever,
          custom_labels, custom_label_seq, creating,
          business_seq, otp_storage, now, g_used, storing, updating>>

dbvars == <<employees, emp_seq, bus_seq, business, stores, store_seq, labels,
            label_seq, products, product_seq>>

histvars == <<g_created, g_deleted, g_last_cf, g_ever>>

clvars == <<custom_labels, custom_label_seq, creating>>

auxvars == <<business_seq, otp_storage, now, g_used, storing, updating>>

-----------------------------------------------------------------------------
(* Bounds of the model *)

MaxTenants == 2
MaxEmployees == 3
MaxStores == 3
MaxLabelRows == 4
MaxProducts == 4
MaxBatch == 3
MaxInflight == 2
MaxCustomLabels == 3

-----------------------------------------------------------------------------
(* Program constants *)

EmpIdStart == 1000
BusinessIdStart == 20000
NoMatchEmpId == -1
DefaultLimit == 100

-----------------------------------------------------------------------------
(* Strings *)

\* SQL NULL / Python None of a string column.  "NULL" is not a character.
NullStr == <<"NULL">>

\* SQL NULL / Python None of an integer column.
NullInt == 0

Digits == <<"0", "1", "2", "3", "4", "5", "6", "7", "8", "9">>

RECURSIVE IntToStr(_)
\* Python str(n) / f"{n}" of a non-negative int
IntToStr(n) ==
    IF n < 10 THEN <<Digits[n + 1]>>
    ELSE IntToStr(n \div 10) \o <<Digits[(n % 10) + 1]>>

DigitVal(c) == CHOOSE d \in 0..9 : Digits[d + 1] = c

IsDigitStr(s) == s # NullStr /\ Len(s) > 0 /\ \A i \in 1..Len(s) : \E d \in 1..10 : Digits[d] = s[i]

RECURSIVE StrToInt(_)
\* the integer a digit string denotes (PostgreSQL's cast of a varchar
\* compared with an integer column)
StrToInt(s) ==
    IF Len(s) = 1 THEN DigitVal(s[1])
    ELSE 10 * StrToInt(SubSeq(s, 1, Len(s) - 1)) + DigitVal(s[Len(s)])

\* str.lower() on the alphabet of the model
LowerChar(c) ==
    CASE c = "A" -> "a"
      [] c = "B" -> "b"
      [] c = "S" -> "s"
      [] OTHER -> c

Lower(s) == [i \in 1..Len(s) |-> LowerChar(s[i])]

RECURSIVE LikeMatch(_, _)
\* SQL  text LIKE pattern : % is any run of characters, _ is any one
LikeMatch(t, p) ==
    IF Len(p) = 0 THEN Len(t) = 0
    ELSE IF p[1] = "%"
         THEN \E k \in 0..Len(t) : LikeMatch(SubSeq(t, k + 1, Len(t)), Tail(p))
         ELSE /\ Len(t) > 0
              /\ (p[1] = "_" \/ p[1] = t[1])
              /\ LikeMatch(Tail(t), Tail(p))

\* column.ilike(f"%{v}%") : NULL never matches
ILikeContains(col, v) ==
    /\ col # NullStr
    /\ LikeMatch(Lower(col), <<"%">> \o Lower(v) \o <<"%">>)

\* v occurs in s, ignoring case (plain substring containment)
ContainsCI(s, v) ==
    /\ s # NullStr
    /\ \E i \in 1..(Len(s) - Len(v) + 1) :
           SubSeq(Lower(s), i, i + Len(v) - 1) = Lower(v)

\* Python truthiness of an Optional[str]
Truthy(s) == s # NullStr /\ Len(s) > 0

\* str.strip() is not modelled on characters: the inputs carry no blanks,
\* except the all-blank string
Blank == <<" ">>
Strip(s) == IF s = Blank THEN <<>> ELSE s

-----------------------------------------------------------------------------
(* Tables *)

Rows(table) == {table[i] : i \in DOMAIN table}

Insert(table, id, row) == (id :> row) @@ table

Remove(table, ids) == [i \in (DOMAIN table) \ ids |-> table[i]]

\* str(current_user.business_id)
TenantStr(bid) == IntToStr(bid)

Tenants == BusinessIdStart .. (BusinessIdStart + MaxTenants - 1)

\* the answer before any request
NoResp == [op |-> "none", caller |-> NullInt, bid |-> NullInt, status |-> 0]

-----------------------------------------------------------------------------
(* Authorisation: core/dependencies.py *)

\* get_current_employee: the token names an employee that exists
get_current_employee(c) == c \in DOMAIN employees

\* require_role(allowed_roles)
require_role(c, allowed_roles) ==
    /\ get_current_employee(c)
    /\ employees[c].role \in allowed_roles

-----------------------------------------------------------------------------
(* Inputs *)

Names == {<<"a">>, <<"A", "b">>}
StoreNames == {<<"a">>, <<"b">>, Blank}

RequestIds == 1..MaxInflight

-----------------------------------------------------------------------------
(* Initial state: empty tables, fresh sequences *)

Init ==
    /\ employees = <<>>
    /\ emp_seq = EmpIdStart
    /\ bus_seq = BusinessIdStart
    /\ business = <<>>
    /\ stores = <<>>
    /\ store_seq = 1
    /\ labels = <<>>
    /\ label_seq = 1
    /\ products = <<>>
    /\ product_seq = 1
    /\ response = NoResp
    /\ inflight = <<>>
    /\ g_created = [t \in Tenants |-> 0]
    /\ g_deleted = {}
    /\ g_last_cf = <<>>
    /\ g_ever = {}
    /\ custom_labels = <<>>
    /\ custom_label_seq = 1
    /\ creating = <<>>
    /\ business_seq = 1
    /\ otp_storage = <<>>
    /\ now = 0
    /\ g_used = {}
    /\ storing = <<>>
    /\ updating = <<>>

-----------------------------------------------------------------------------
(* models/business.py *)

\* Business(business_id=..., business_name=..., owner_name=...); the logo
\* columns are null
BusinessRow(bid_str, business_name, owner_name) ==
    [business_id |-> bid_str, business_name |-> business_name,
     owner_name |-> owner_name, logo_data |-> NullStr]

\* db.query(Business).filter(Business.business_id == ...)
BusinessOf(bid_str) == {i \in DOMAIN business : business[i].business_id = bid_str}

-----------------------------------------------------------------------------
(* routes/employees.py: register_owner *)

\* POST /register-owner : a new employee row takes the next emp_id and the
\* next business_id of the two sequences; the Business row is keyed by
\* str(business_id)
register_owner(name, passwords_match) ==
    /\ emp_seq < EmpIdStart + MaxEmployees
    /\ bus_seq < BusinessIdStart + MaxTenants
    /\ IF ~passwords_match
       THEN /\ response' = [NoResp EXCEPT !.op = "register_owner", !.status = 400]
            /\ UNCHANGED <<dbvars, inflight, histvars, business_seq>>
       ELSE /\ employees' = Insert(employees, emp_seq,
                                   [business_id |-> bus_seq, role |-> "owner",
                                    name |-> name, store_id |-> NullStr])
            /\ emp_seq' = emp_seq + 1
            /\ bus_seq' = bus_seq + 1
            /\ business' = Insert(business, business_seq,
                                  BusinessRow(TenantStr(bus_seq), <<>>, name))
            /\ business_seq' = business_seq + 1
            /\ g_last_cf' = Insert(g_last_cf, emp_seq, <<>>)
            /\ response' = [NoResp EXCEPT !.op = "register_owner", !.status = 201,
                                          !.caller = emp_seq, !.bid = bus_seq]
            /\ UNCHANGED <<stores, store_seq, labels, label_seq, products,
                           product_seq, inflight, g_created, g_deleted, g_ever>>
    /\ UNCHANGED clvars
    /\ UNCHANGED <<otp_storage, now, g_used, storing, updating>>

-----------------------------------------------------------------------------
(* routes/stores.py *)

StoresOf(bid_str) == {i \in DOMAIN stores : stores[i].business_id = bid_str}

\* mutant: the count forgets the tenant filter
next_sequence_all_tenants(bid_str) == Cardinality(DOMAIN stores) + 1

\* db.query(Store).filter(Store.business_id == user_business_id).count() + 1
next_sequence(bid_str) == Cardinality(StoresOf(bid_str)) + 1

\* f"STR{store.store_sequence}"
StoreDisplayId(seq) == <<"S", "T", "R">> \o IntToStr(seq)

\* uq_business_store_name
StoreNameTaken(bid_str, store_name, except_id) ==
    \E i \in StoresOf(bid_str) : i # except_id /\ stores[i].store_name = store_name

StoreResp(op, c, status) ==
    [op |-> op, caller |-> c, bid |-> employees[c].business_id, status |-> status,
     rows |-> {}, id |-> NullInt, store_id |-> NullStr, store_sequence |-> NullInt,
     store_name |-> NullStr]

StoreBody(op, c, status, i, row) ==
    [StoreResp(op, c, status) EXCEPT
        !.rows = {<<"stores", i, row.business_id>>},
        !.id = i,
        !.store_id = StoreDisplayId(row.store_sequence),
        !.store_sequence = row.store_sequence,
        !.store_name = row.store_name]

\* POST /stores
create_store(c, store_name) ==
    /\ require_role(c, {"owner", "admin"})
    /\ store_seq <= MaxStores
    /\ LET bid == TenantStr(employees[c].business_id)
           row == [business_id |-> bid, store_sequence |-> next_sequence(bid),
                   store_name |-> store_name]
       IN  IF Len(Strip(store_name)) = 0
           THEN /\ response' = StoreResp("create_store", c, 400)
                /\ UNCHANGED <<dbvars, inflight, histvars>>
           ELSE IF BusinessOf(bid) = {}
           THEN /\ response' = StoreResp("create_store", c, 404)
                /\ UNCHANGED <<dbvars, inflight, histvars>>
           ELSE IF StoreNameTaken(bid, store_name, NullInt)
           THEN \* IntegrityError: rolled back; the serial value is spent
                /\ response' = StoreResp("create_store", c, 409)
                /\ store_seq' = store_seq + 1
                /\ UNCHANGED <<employees, emp_seq, bus_seq, business, stores, labels,
                               label_seq, products, product_seq, inflight, histvars>>
           ELSE /\ stores' = Insert(stores, store_seq, row)
                /\ store_seq' = store_seq + 1
                /\ g_created' = [g_created EXCEPT ![employees[c].business_id] = @ + 1]
                /\ response' = StoreBody("create_store", c, 201, store_seq, row)
                /\ UNCHANGED <<employees, emp_seq, bus_seq, business, labels, label_seq,
                               products, product_seq, inflight, g_deleted, g_last_cf,
                               g_ever>>
    /\ UNCHANGED clvars
    /\ UNCHANGED auxvars

\* DELETE /stores/{store_id}
delete_store(c, store_id) ==
    /\ require_role(c, {"owner", "admin"})
    /\ LET bid == TenantStr(employees[c].business_id)
       IN  IF store_id \notin StoresOf(bid)
           THEN /\ response' = StoreResp("delete_store", c, 404)
                /\ UNCHANGED <<dbvars, inflight, histvars>>
           ELSE /\ stores' = Remove(stores, {store_id})
                /\ g_deleted' = g_deleted \cup {employees[c].business_id}
                /\ response' = StoreResp("delete_store", c, 204)
                /\ UNCHANGED <<employees, emp_seq, bus_seq, business, store_seq, labels,
                               label_seq, products, product_seq, inflight, g_created,
                               g_last_cf, g_ever>>
    /\ UNCHANGED clvars
    /\ UNCHANGED auxvars

\* GET /stores/{store_id}
get_store(c, store_id) ==
    /\ get_current_employee(c)
    /\ LET bid == TenantStr(employees[c].business_id)
       IN  response' = IF store_id \in StoresOf(bid)
                       THEN StoreBody("get_store", c, 200, store_id, stores[store_id])
                       ELSE StoreResp("get_store", c, 404)
    /\ UNCHANGED <<dbvars, inflight, histvars>>
    /\ UNCHANGED clvars
    /\ UNCHANGED auxvars

\* GET /stores (no filters, first page)
get_stores(c) ==
    /\ get_current_employee(c)
    /\ LET bid == TenantStr(employees[c].business_id)
       IN  response' = [StoreResp("get_stores", c, 200) EXCEPT
                           !.rows = {<<"stores", i, stores[i].business_id>> : i \in StoresOf(bid)}]
    /\ UNCHANGED <<dbvars, inflight, histvars>>
    /\ UNCHANGED clvars
    /\ UNCHANGED auxvars

StoreIds == 1..MaxStores

NextStores ==
    \/ \E n \in Names, pw \in BOOLEAN : register_owner(n, pw)
    \/ \E c \in DOMAIN employees, n \in StoreNames : create_store(c, n)
    \/ \E c \in DOMAIN employees, i \in StoreIds : delete_store(c, i)
    \/ \E c \in DOMAIN employees, i \in StoreIds : get_store(c, i)
    \/ \E c \in DOMAIN employees : get_stores(c)

SpecStores == Init /\ [][NextStores]_vars

\* a table with a unique constraint on (business_id, store_sequence) too
store_insert_rejected_by_sequence(bid_str, store_name, store_sequence) ==
    \/ StoreNameTaken(bid_str, store_name, NullInt)
    \/ \E i \in StoresOf(bid_str) : stores[i].store_sequence = store_sequence

\* UniqueConstraint('business_id', 'store_name', name='uq_business_store_name')
\* is the one constraint that can reject the insert of a store
store_insert_rejected(bid_str, store_name, store_sequence) ==
    StoreNameTaken(bid_str, store_name, NullInt)

\* POST /stores up to next_sequence = max_sequence + 1
create_store_count(r, c, store_name) ==
    /\ r \notin DOMAIN storing
    /\ require_role(c, {"owner", "admin"})
    /\ LET bid == TenantStr(employees[c].business_id)
       IN  IF Len(Strip(store_name)) = 0
           THEN /\ response' = StoreResp("create_store", c, 400)
                /\ UNCHANGED storing
           ELSE IF BusinessOf(bid) = {}
           THEN /\ response' = StoreResp("create_store", c, 404)
                /\ UNCHANGED storing
           ELSE /\ storing' = Insert(storing, r,
                                     [caller |-> c, store_name |-> store_name,
                                      next_sequence |-> next_sequence(bid)])
                /\ UNCHANGED response
    /\ UNCHANGED <<dbvars, inflight, histvars, clvars,
                   business_seq, otp_storage, now, g_used, updating>>

\* POST /stores from db.add(db_store) on: the insert takes an id of the
\* serial and is committed, or fails on the unique constraint
create_store_insert(r) ==
    /\ r \in DOMAIN storing
    /\ store_seq <= MaxStores
    /\ storing' = Remove(storing, {r})
    /\ store_seq' = store_seq + 1
    /\ LET req == storing[r]
           c == req.caller
           bid == TenantStr(employees[c].business_id)
           row == [business_id |-> bid, store_sequence |-> req.next_sequence,
                   store_name |-> req.store_name]
       IN  IF store_insert_rejected(bid, req.store_name, req.next_sequence)
           THEN /\ response' = StoreResp("create_store", c, 409)
                /\ UNCHANGED <<stores, g_created>>
           ELSE /\ stores' = Insert(stores, store_seq, row)
                /\ g_created' = [g_created EXCEPT ![employees[c].business_id] = @ + 1]
                /\ response' = StoreBody("create_store", c, 201, store_seq, row)
    /\ UNCHANGED <<employees, emp_seq, bus_seq, business, labels, label_seq, products,
                   product_seq, inflight, g_deleted, g_last_cf, g_ever, clvars,
                   business_seq, otp_storage, now, g_used, updating>>

\* create_store requests of two tenants whose steps interleave
NextStoring ==
    \/ register_owner(<<"a">>, TRUE)
    \/ \E r \in RequestIds, c \in DOMAIN employees, n \in StoreNames :
          create_store_count(r, c, n)
    \/ \E r \in RequestIds : create_store_insert(r)
    \/ \E c \in DOMAIN employees : get_stores(c)

SpecStoring == Init /\ [][NextStoring]_vars

-----------------------------------------------------------------------------
(* employee_labels rows and custom_fields *)

\* a custom_fields request value is a list of dicts; a dict is written as
\* the sequence of its (label_name, label_value) items
RECURSIVE Flatten(_)
\* for field_obj in custom_fields: for label_name, label_value in field_obj.items()
Flatten(cf) == IF Len(cf) = 0 THEN <<>> ELSE Head(cf) \o Flatten(Tail(cf))

\* EmployeeLabel(emp_id=..., business_id=..., label_name=..., label_value=...)
InstanceRow(e, bid, pair) ==
    [emp_id |-> e, business_id |-> bid, label_name |-> pair[1],
     label_value |-> pair[2], label_values |-> {}]

\* EmployeeLabel(emp_id=None, ..., label_value=None, label_values=valid_values)
TemplateRow(bid, label_name, valid_values) ==
    [emp_id |-> NullInt, business_id |-> bid, label_name |-> label_name,
     label_value |-> NullStr, label_values |-> valid_values]

\* a handler that deletes the records and adds none
AddInstances_nothing(table, first_id, e, bid, pairs) == table

\* db.add(label) for every item, ids from the serial
AddInstances(table, first_id, e, bid, pairs) ==
    [i \in first_id .. (first_id + Len(pairs) - 1) |->
        InstanceRow(e, bid, pairs[i - first_id + 1])] @@ table

\* a list of {label_name: label_value} in the order the database returns
\* it, which no ORDER BY fixes: kept as the multiset of its items
CustomFieldsOf(ids) ==
    {<<labels[i].label_name, labels[i].label_value,
       Cardinality({j \in ids : /\ labels[j].label_name = labels[i].label_name
                                /\ labels[j].label_value = labels[i].label_value})>> :
        i \in ids}

\* the multiset of the items of a flattened custom_fields value
PairsOf(pairs) ==
    {<<pairs[i][1], pairs[i][2],
       Cardinality({j \in 1..Len(pairs) : pairs[j] = pairs[i]})>> : i \in 1..Len(pairs)}

\* the instance values a state holds per (tenant, label)
InstanceValues(table) ==
    {<<table[i].business_id, table[i].label_name, table[i].label_value>> :
        i \in {j \in DOMAIN table : table[j].emp_id # NullInt /\ table[j].label_value # NullStr}}

-----------------------------------------------------------------------------
(* routes/employees.py: writes *)

EmpResp(op, c, status) ==
    [op |-> op, caller |-> c, bid |-> employees[c].business_id, status |-> status,
     rows |-> {}, emp_id |-> NullInt]

\* POST /employees
create_employee(c, name, role, store_id, custom_fields) ==
    /\ require_role(c, {"owner", "admin", "manager"})
    /\ emp_seq < EmpIdStart + MaxEmployees
    /\ LET bid == employees[c].business_id
           pairs == IF Len(custom_fields) > 0 THEN Flatten(custom_fields) ELSE <<>>
       IN  /\ label_seq + Len(pairs) - 1 <= MaxLabelRows
           /\ employees' = Insert(employees, emp_seq,
                  [business_id |-> bid, role |-> role, name |-> name,
                   store_id |-> IF store_id = NullInt THEN NullStr ELSE IntToStr(store_id)])
           /\ emp_seq' = emp_seq + 1
           /\ labels' = AddInstances(labels, label_seq, emp_seq, bid, pairs)
           /\ label_seq' = label_seq + Len(pairs)
           /\ g_last_cf' = Insert(g_last_cf, emp_seq, pairs)
           /\ g_ever' = g_ever \cup InstanceValues(labels')
           /\ response' = [EmpResp("create_employee", c, 201) EXCEPT !.emp_id = emp_seq]
    /\ UNCHANGED <<bus_seq, business, stores, store_seq, products, product_seq,
                   inflight, g_created, g_deleted>>
    /\ UNCHANGED clvars
    /\ UNCHANGED auxvars

\* mutant: the old instance records are not deleted
DeleteLabelsOf_nothing(table, e) == table

\* db.query(EmployeeLabel).filter(EmployeeLabel.emp_id == emp_id).delete()
DeleteLabelsOf(table, e) ==
    Remove(table, {i \in DOMAIN table : table[i].emp_id # NullInt /\ table[i].emp_id = e})

\* for field, value in update_data.items(): setattr(db_employee, field, value)
SetFields(row, upd) ==
    [row EXCEPT
        !.role = IF upd.has_role THEN upd.role ELSE @,
        !.store_id = IF upd.has_store_id THEN IntToStr(upd.store_id) ELSE @]

\* PUT /employees/{emp_id}
update_employee(c, emp_id, upd) ==
    /\ get_current_employee(c)
    /\ IF ~(emp_id \in DOMAIN employees
            /\ employees[emp_id].business_id = employees[c].business_id)
       THEN /\ response' = [EmpResp("update_employee", c, 404) EXCEPT !.emp_id = emp_id]
            /\ UNCHANGED <<dbvars, inflight, histvars>>
       ELSE IF c # emp_id /\ employees[c].role \notin {"owner", "admin", "manager"}
       THEN /\ response' = [EmpResp("update_employee", c, 403) EXCEPT !.emp_id = emp_id]
            /\ UNCHANGED <<dbvars, inflight, histvars>>
       ELSE LET bid == employees[emp_id].business_id
                pairs == Flatten(upd.custom_fields)
            IN  /\ employees' = [employees EXCEPT ![emp_id] = SetFields(@, upd)]
                /\ IF upd.has_custom_fields
                   THEN /\ label_seq + Len(pairs) - 1 <= MaxLabelRows
                        /\ labels' = AddInstances(DeleteLabelsOf(labels, emp_id),
                                                  label_seq, emp_id, bid, pairs)
                        /\ label_seq' = label_seq + Len(pairs)
                        /\ g_last_cf' = [g_last_cf EXCEPT ![emp_id] = pairs]
                   ELSE UNCHANGED <<labels, label_seq, g_last_cf>>
                /\ g_ever' = g_ever \cup InstanceValues(labels')
                /\ response' = [EmpResp("update_employee", c, 200) EXCEPT !.emp_id = emp_id]
                                @@ [has_custom_fields |-> upd.has_custom_fields]
                /\ UNCHANGED <<emp_seq, bus_seq, business, stores, store_seq, products,
                               product_seq, inflight, g_created, g_deleted>>
    /\ UNCHANGED clvars
    /\ UNCHANGED auxvars

\* DELETE /employees/{emp_id} ; the labels relationship cascades the delete
delete_employee(c, emp_id) ==
    /\ require_role(c, {"owner", "admin"})
    /\ IF ~(emp_id \in DOMAIN employees
            /\ employees[emp_id].business_id = employees[c].business_id)
       THEN /\ response' = [EmpResp("delete_employee", c, 404) EXCEPT !.emp_id = emp_id]
            /\ UNCHANGED <<dbvars, inflight, histvars>>
       ELSE IF /\ employees[emp_id].role = "owner"
               /\ BusinessOf(TenantStr(employees[emp_id].business_id)) # {}
       THEN /\ response' = [EmpResp("delete_employee", c, 400) EXCEPT !.emp_id = emp_id]
            /\ UNCHANGED <<dbvars, inflight, histvars>>
       ELSE /\ employees' = Remove(employees, {emp_id})
            /\ labels' = DeleteLabelsOf(labels, emp_id)
            /\ response' = [op |-> "delete_employee", caller |-> c,
                            bid |-> employees[c].business_id, status |-> 200,
                            rows |-> {}, emp_id |-> emp_id]
            /\ UNCHANGED <<emp_seq, bus_seq, business, stores, store_seq, label_seq,
                           products, product_seq, inflight, histvars>>
    /\ UNCHANGED clvars
    /\ UNCHANGED auxvars

-----------------------------------------------------------------------------
(* routes/employees.py: reads *)

\* db.query(Store).filter(Store.id == db_employee.store_id).first()
\* (an integer column compared with the varchar employees.store_id)
StoreOfEmployee(e) ==
    IF Truthy(employees[e].store_id)
    THEN {i \in DOMAIN stores : i = StrToInt(employees[e].store_id)}
    ELSE {}

\* db.query(EmployeeLabel).filter(emp_id == e.emp_id, business_id == e.business_id)
LabelsOfEmployee(e) ==
    {i \in DOMAIN labels : /\ labels[i].emp_id # NullInt
                           /\ labels[i].emp_id = e
                           /\ labels[i].business_id = employees[e].business_id}

\* the response dict of one employee; found is the set of Store rows the
\* handler attaches (empty or one row)
EmpDict(e, found, label_ids) ==
    [emp_id |-> e,
     business_id |-> employees[e].business_id,
     name |-> employees[e].name,
     role |-> employees[e].role,
     store_id |-> employees[e].store_id,
     store_id_display |-> IF found = {} THEN NullStr
                          ELSE StoreDisplayId(stores[CHOOSE i \in found : TRUE].store_sequence),
     store_name |-> IF found = {} THEN NullStr
                    ELSE stores[CHOOSE i \in found : TRUE].store_name,
     custom_fields |-> CustomFieldsOf(label_ids),
     custom_fields_none |-> (label_ids = {})]

\* the table rows whose columns an employee dict carries
EmpDictRows(e, found, label_ids) ==
    {<<"employees", e, TenantStr(employees[e].business_id)>>}
    \cup {<<"stores", i, stores[i].business_id>> : i \in found}
    \cup {<<"employee_labels", i, TenantStr(labels[i].business_id)>> : i \in label_ids}

\* GET /employees/{emp_id}
get_employee(c, emp_id) ==
    /\ require_role(c, {"owner", "admin", "manager"})
    /\ IF ~(emp_id \in DOMAIN employees
            /\ employees[emp_id].business_id = employees[c].business_id)
       THEN response' = [EmpResp("get_employee", c, 404) EXCEPT !.emp_id = emp_id]
       ELSE response' =
                [op |-> "get_employee", caller |-> c, bid |-> employees[c].business_id,
                 status |-> 200, emp_id |-> emp_id,
                 rows |-> EmpDictRows(emp_id, StoreOfEmployee(emp_id), LabelsOfEmployee(emp_id)),
                 body |-> EmpDict(emp_id, StoreOfEmployee(emp_id), LabelsOfEmployee(emp_id))]
    /\ UNCHANGED <<dbvars, inflight, histvars>>
    /\ UNCHANGED clvars
    /\ UNCHANGED auxvars

\* sorted(list(set(...))) of strings: the order is not modelled here, the
\* answer is kept as the set of its elements
\* GET /employees/custom-fields/labels
get_custom_field_labels(c) ==
    /\ require_role(c, {"owner", "admin", "manager"})
    /\ LET ids == {i \in DOMAIN labels : labels[i].business_id = employees[c].business_id}
       IN  response' = [op |-> "get_custom_field_labels", caller |-> c,
                        bid |-> employees[c].business_id, status |-> 200,
                        rows |-> {<<"employee_labels", i, TenantStr(labels[i].business_id)>> : i \in ids},
                        values |-> {labels[i].label_name : i \in ids}]
    /\ UNCHANGED <<dbvars, inflight, histvars>>
    /\ UNCHANGED clvars
    /\ UNCHANGED auxvars

\* the template records of (tenant, label): emp_id IS NULL
TemplatesOf(bid, label_name) ==
    {i \in DOMAIN labels : /\ labels[i].business_id = bid
                           /\ labels[i].label_name = label_name
                           /\ labels[i].emp_id = NullInt}

\* the instance records of (tenant, label) with a value
ValuedInstancesOf(bid, label_name) ==
    {i \in DOMAIN labels : /\ labels[i].business_id = bid
                           /\ labels[i].label_name = label_name
                           /\ labels[i].emp_id # NullInt
                           /\ labels[i].label_value # NullStr}

\* ord() of the characters of the model
CodePoint(ch) ==
    CASE ch = " " -> 32
      [] ch = "A" -> 65
      [] ch = "B" -> 66
      [] ch = "D" -> 68
      [] ch = "S" -> 83
      [] ch = "_" -> 95
      [] ch = "a" -> 97
      [] ch = "b" -> 98
      [] ch = "s" -> 115
      [] OTHER -> 120

RECURSIVE StrLess(_, _)
\* Python  s < t  on str: the first differing character decides, a proper
\* prefix is smaller
StrLess(s, t) ==
    IF Len(t) = 0 THEN FALSE
    ELSE IF Len(s) = 0 THEN TRUE
    ELSE IF s[1] # t[1] THEN CodePoint(s[1]) < CodePoint(t[1])
    ELSE StrLess(Tail(s), Tail(t))

RECURSIVE sorted_descending(_)
RECURSIVE sorted(_)

\* a listing in the opposite order: the largest value comes first
sorted_descending(values) ==
    IF values = {} THEN <<>>
    ELSE LET top == CHOOSE x \in values : \A y \in values \ {x} : StrLess(y, x)
         IN  <<top>> \o sorted_descending(values \ {top})

\* sorted(all_values)
sorted(values) ==
    IF values = {} THEN <<>>
    ELSE LET least == CHOOSE x \in values : \A y \in values \ {x} : StrLess(x, y)
         IN  <<least>> \o sorted(values \ {least})

\* mutant: only the template values are returned
label_values_of_template_only(bid, label_name, template) ==
    IF template = {} THEN {} ELSE labels[CHOOSE i \in template : TRUE].label_values

\* set(template_values + employee_values) ; .first() takes any one template
label_values_of(bid, label_name, template) ==
    (IF template = {} THEN {} ELSE labels[CHOOSE i \in template : TRUE].label_values)
    \cup {labels[i].label_value : i \in ValuedInstancesOf(bid, label_name)}

\* GET /employees/custom-fields/values/{label_name}
get_label_values(c, label_name) ==
    /\ require_role(c, {"owner", "admin", "manager"})
    /\ LET bid == employees[c].business_id
           tpl == TemplatesOf(bid, label_name)
       IN  \E first \in (IF tpl = {} THEN {{}} ELSE {{i} : i \in tpl}) :
             response' = [op |-> "get_label_values", caller |-> c, bid |-> bid,
                          status |-> 200, label_name |-> label_name,
                          rows |-> {<<"employee_labels", i, TenantStr(labels[i].business_id)>> :
                                       i \in first \cup ValuedInstancesOf(bid, label_name)},
                          values |-> label_values_of(bid, label_name, first),
                          result |-> sorted(label_values_of(bid, label_name, first))]
    /\ UNCHANGED <<dbvars, inflight, histvars>>
    /\ UNCHANGED clvars
    /\ UNCHANGED auxvars

-----------------------------------------------------------------------------
(* routes/employees.py: get_employees *)

\* a filter field is the sequence of its parts; the part "custom_" is the
\* prefix that startswith and replace look for
IsCustomField(field) == Len(field) > 0 /\ field[1] = "custom_"

\* filter_field_item.replace("custom_", "") : every occurrence goes
custom_field_name(field) == SelectSeq(field, LAMBDA part : part # "custom_")

\* the characters of a role column value
RoleText(role) ==
    CASE role = "owner" -> <<"o", "w", "n", "e", "r">>
      [] role = "admin" -> <<"a", "d", "m", "i", "n">>
      [] role = "manager" -> <<"m", "a", "n", "a", "g", "e", "r">>
      [] OTHER -> <<"e", "m", "p", "l", "o", "y", "e", "e">>

\* db.query(EmployeeLabel.emp_id).filter(business_id, label_name, label_value.ilike)
matching_ids(bid, field, value) ==
    {labels[i].emp_id :
        i \in {j \in DOMAIN labels : /\ labels[j].business_id = bid
                                     /\ labels[j].label_name = custom_field_name(field)
                                     /\ ILikeContains(labels[j].label_value, value)}}

\* mutant: a criterion without matching records filters nothing
custom_filter_noop(ids, matching) ==
    IF matching # {} THEN ids \cap matching ELSE ids

\* Employee.emp_id.in_(matching_ids), else Employee.emp_id == -1
custom_filter(ids, matching) ==
    IF matching # {} THEN ids \cap matching ELSE {e \in ids : e = NoMatchEmpId}

\* the built-in columns the model keeps; any other field adds no condition
regular_filter(ids, field, value) ==
    CASE field = <<"emp_id">> ->
             IF IsDigitStr(value) THEN {e \in ids : e = StrToInt(value)} ELSE ids
      [] field = <<"name">> -> {e \in ids : ILikeContains(employees[e].name, value)}
      [] field = <<"role">> -> {e \in ids : ILikeContains(RoleText(employees[e].role), value)}
      [] OTHER -> ids

\* one criterion; a missing or empty field or value skips it
apply_filter(ids, bid, item) ==
    IF ~Truthy(item.field) \/ ~Truthy(item.value) THEN ids
    ELSE IF IsCustomField(item.field)
         THEN custom_filter(ids, matching_ids(bid, item.field, item.value))
         ELSE regular_filter(ids, item.field, item.value)

\* a handler that lets the last criterion replace the earlier ones
apply_filters_last_only(ids, bid, filter_list) ==
    IF Len(filter_list) = 0 THEN ids
    ELSE apply_filter(ids, bid, filter_list[Len(filter_list)])

RECURSIVE apply_filters(_, _, _)
\* for filter_item in filter_list
apply_filters(ids, bid, filter_list) ==
    IF Len(filter_list) = 0 THEN ids
    ELSE apply_filters(apply_filter(ids, bid, Head(filter_list)), bid, Tail(filter_list))

\* the criteria the handler applies: the list if it is not empty, else the
\* legacy pair if both parts are given
applied_filters(filter_list, filter_field, filter_value) ==
    IF Len(filter_list) > 0
    THEN SelectSeq(filter_list, LAMBDA item : Truthy(item.field) /\ Truthy(item.value))
    ELSE IF Truthy(filter_field) /\ Truthy(filter_value)
         THEN <<[field |-> filter_field, value |-> filter_value]>>
         ELSE <<>>

\* the emp_ids of the filtered query
filtered_ids(bid, filter_list, filter_field, filter_value) ==
    apply_filters({e \in DOMAIN employees : employees[e].business_id = bid}, bid,
                  applied_filters(filter_list, filter_field, filter_value))

\* query.join(Store, Employee.store_id == Store.id): the varchar column
\* employees.store_id has no = operator with the integer stores.id, the
\* statement fails when it is executed
joins_store(filter_list, filter_field, filter_value) ==
    \E i \in 1..Len(applied_filters(filter_list, filter_field, filter_value)) :
        applied_filters(filter_list, filter_field, filter_value)[i].field = <<"store_id">>

\* db.query(Store).filter(Store.id.in_(store_ids)); stores_dict = {store.id: store}
stores_dict(emp_ids) ==
    {i \in DOMAIN stores : \E e \in emp_ids : /\ Truthy(employees[e].store_id)
                                              /\ i = StrToInt(employees[e].store_id)}

\* Python ==  between the str emp.store_id and an int key of stores_dict
StrKeyEqualsIntKey(str_key, int_key) == FALSE

\* emp.store_id in stores_dict
StoreFromDict(e, dict) ==
    {i \in dict : /\ Truthy(employees[e].store_id)
                  /\ StrKeyEqualsIntKey(employees[e].store_id, i)}

\* labels_by_emp.get(emp.emp_id, [])
LabelsByEmp(e, bid) ==
    {i \in DOMAIN labels : /\ labels[i].emp_id # NullInt
                           /\ labels[i].emp_id = e
                           /\ labels[i].business_id = bid}

Min(a, b) == IF a < b THEN a ELSE b

\* GET /employees : no ORDER BY, a page is any part of the filtered rows of
\* the size offset and limit leave
get_employees(c, skip, limit, filter_field, filter_value, filter_list) ==
    /\ require_role(c, {"owner", "admin", "manager"})
    /\ LET bid == employees[c].business_id
           ids == filtered_ids(bid, filter_list, filter_field, filter_value)
           total == Cardinality(ids)
           size == Min(limit, IF total > skip THEN total - skip ELSE 0)
           req == [op |-> "get_employees", caller |-> c, bid |-> bid,
                   filters |-> filter_list, filter_field |-> filter_field,
                   filter_value |-> filter_value, skip |-> skip, limit |-> limit]
       IN  IF joins_store(filter_list, filter_field, filter_value)
           THEN response' = req @@ [status |-> 500, rows |-> {}, items |-> {}, total |-> 0]
           ELSE \E page \in {pg \in SUBSET ids : Cardinality(pg) = size} :
                  response' = req @@
                      [status |-> 200,
                       rows |-> UNION {EmpDictRows(e, StoreFromDict(e, stores_dict(page)),
                                                   LabelsByEmp(e, bid)) : e \in page},
                       items |-> {EmpDict(e, StoreFromDict(e, stores_dict(page)),
                                          LabelsByEmp(e, bid)) : e \in page},
                       total |-> total]
    /\ UNCHANGED <<dbvars, inflight, histvars>>
    /\ UNCHANGED clvars
    /\ UNCHANGED auxvars

-----------------------------------------------------------------------------
(* routes/employees.py: define_custom_label *)

\* a values argument that is not a list, and a list item that is not a str
NotAList == <<"NOTALIST">>
NotAStr == <<"NOTASTR">>

\* not values or not isinstance(values, list)
values_rejected(values) == values = NotAList \/ Len(values) = 0

\* mutant: blank and non-string items are kept
valid_values_of_unfiltered(values) ==
    {Strip(values[i]) : i \in 1..Len(values)}

\* list(set([v.strip() for v in values if isinstance(v, str) and v.strip()]))
valid_values_of(values) ==
    {Strip(values[i]) : i \in {j \in 1..Len(values) : /\ values[j] # NotAStr
                                                      /\ Len(Strip(values[j])) > 0}}

\* mutant: the new values replace the stored ones
merged_values_overwrite(current_values, valid_values) == valid_values

\* list(set(current_values + valid_values))
merged_values(current_values, valid_values) == current_values \cup valid_values

\* mutant: counts the supplied values, not the net-new ones
new_count_supplied(current_values, valid_values) == Cardinality(valid_values)

\* len(merged_values) - len(current_values)
new_count(current_values, valid_values) ==
    Cardinality(merged_values(current_values, valid_values)) - Cardinality(current_values)

DefineResp(c, status, label_name, values) ==
    [op |-> "define_custom_label", caller |-> c, bid |-> employees[c].business_id,
     status |-> status, rows |-> {}, label_name |-> label_name, req_values |-> values,
     path |-> "rejected", new_values_added |-> NoMatchEmpId, total_values |-> NoMatchEmpId]

\* POST /employees/custom-fields/define-label, run in one piece
define_custom_label(c, raw_label_name, values) ==
    /\ require_role(c, {"owner", "admin", "manager"})
    /\ LET bid == employees[c].business_id
           label_name == Strip(raw_label_name)
           valid == IF values_rejected(values) THEN {} ELSE valid_values_of(values)
           tpl == TemplatesOf(bid, label_name)
       IN  IF Len(label_name) = 0 \/ values_rejected(values) \/ valid = {}
           THEN /\ response' = DefineResp(c, 400, raw_label_name, values)
                /\ UNCHANGED <<dbvars, inflight, histvars>>
           ELSE IF tpl # {}
           THEN \E t \in tpl :
                /\ labels' = [labels EXCEPT ![t].label_values =
                                 merged_values(labels[t].label_values, valid)]
                /\ response' = [DefineResp(c, 201, raw_label_name, values) EXCEPT
                                   !.path = "updated",
                                   !.new_values_added = new_count(labels[t].label_values, valid),
                                   !.total_values =
                                       Cardinality(merged_values(labels[t].label_values, valid))]
                /\ UNCHANGED <<employees, emp_seq, bus_seq, business, stores, store_seq,
                               label_seq, products, product_seq, inflight, histvars>>
           ELSE /\ label_seq <= MaxLabelRows
                /\ labels' = Insert(labels, label_seq, TemplateRow(bid, label_name, valid))
                /\ label_seq' = label_seq + 1
                /\ response' = [DefineResp(c, 201, raw_label_name, values) EXCEPT
                                   !.path = "created",
                                   !.total_values = Cardinality(valid)]
                /\ UNCHANGED <<employees, emp_seq, bus_seq, business, stores, store_seq,
                               products, product_seq, inflight, histvars>>
    /\ UNCHANGED clvars
    /\ UNCHANGED auxvars

-----------------------------------------------------------------------------
(* define_custom_label under concurrent requests: every request has its own
   session; the query for the template and the commit are two round trips *)


\* mutant: the table has no unique index for templates
template_index_violated_never(table, bid, label_name) == FALSE

\* CREATE UNIQUE INDEX uq_business_label_template
\*   ON employee_labels (business_id, label_name) WHERE emp_id IS NULL
template_index_violated(table, bid, label_name) ==
    \E i \in DOMAIN table : /\ table[i].emp_id = NullInt
                            /\ table[i].business_id = bid
                            /\ table[i].label_name = label_name

\* the request is validated and existing_template is queried
define_custom_label_query(r, c, raw_label_name, values) ==
    /\ r \notin DOMAIN inflight
    /\ require_role(c, {"owner", "admin", "manager"})
    /\ LET bid == employees[c].business_id
           label_name == Strip(raw_label_name)
           valid == IF values_rejected(values) THEN {} ELSE valid_values_of(values)
           tpl == TemplatesOf(bid, label_name)
       IN  IF Len(label_name) = 0 \/ values_rejected(values) \/ valid = {}
           THEN /\ response' = DefineResp(c, 400, raw_label_name, values)
                /\ UNCHANGED inflight
           ELSE /\ \E first \in (IF tpl = {} THEN {{}} ELSE {{i} : i \in tpl}) :
                     inflight' = Insert(inflight, r,
                         [caller |-> c, raw_label_name |-> raw_label_name,
                          values |-> values, existing_template |-> first,
                          current_values |-> UNION {labels[i].label_values : i \in first}])
                /\ UNCHANGED response
    /\ UNCHANGED <<dbvars, histvars>>
    /\ UNCHANGED clvars
    /\ UNCHANGED auxvars

\* the template is updated or inserted and the session commits; an
\* IntegrityError of the insert is rolled back and answered with 500
define_custom_label_commit(r) ==
    /\ r \in DOMAIN inflight
    /\ inflight' = Remove(inflight, {r})
    /\ LET req == inflight[r]
           c == req.caller
           bid == employees[c].business_id
           label_name == Strip(req.raw_label_name)
           valid == valid_values_of(req.values)
       IN  IF req.existing_template # {}
           THEN /\ labels' = [i \in DOMAIN labels |->
                                 IF i \in req.existing_template
                                 THEN [labels[i] EXCEPT !.label_values =
                                          merged_values(req.current_values, valid)]
                                 ELSE labels[i]]
                /\ response' = [DefineResp(c, 201, req.raw_label_name, req.values) EXCEPT
                                   !.path = "updated",
                                   !.new_values_added = new_count(req.current_values, valid),
                                   !.total_values =
                                       Cardinality(merged_values(req.current_values, valid))]
                /\ UNCHANGED label_seq
           ELSE /\ label_seq <= MaxLabelRows
                /\ label_seq' = label_seq + 1
                /\ IF template_index_violated(labels, bid, label_name)
                   THEN /\ response' = [DefineResp(c, 500, req.raw_label_name, req.values)
                                          EXCEPT !.path = "failed"]
                        /\ UNCHANGED labels
                   ELSE /\ labels' = Insert(labels, label_seq,
                                            TemplateRow(bid, label_name, valid))
                        /\ response' = [DefineResp(c, 201, req.raw_label_name, req.values)
                                          EXCEPT !.path = "created",
                                                 !.total_values = Cardinality(valid)]
    /\ UNCHANGED <<employees, emp_seq, bus_seq, business, stores, store_seq,
                   products, product_seq, histvars>>
    /\ UNCHANGED clvars
    /\ UNCHANGED auxvars

-----------------------------------------------------------------------------
(* The label specification: employees, their instance records, templates *)

LabelNames == {<<"D">>, <<"B">>}

\* custom_fields request values: [], one item, one dict of two items, the
\* same item in two dicts
CfInputs ==
    { <<>>,
      << << <<<<"D">>, <<"a">>>> >> >>,
      << << <<<<"D">>, <<"A", "b">>>>, <<<<"B">>, <<"a">>>> >>, << <<<<"D">>, <<"A", "b">>>> >> >> }

\* request bodies of update_employee that carry custom_fields or nothing
UpdLabelInputs ==
    {[has_role |-> FALSE, role |-> "employee", has_store_id |-> FALSE,
      store_id |-> NullInt, has_custom_fields |-> TRUE, custom_fields |-> cf] :
        cf \in CfInputs}
    \cup {[has_role |-> FALSE, role |-> "employee", has_store_id |-> FALSE,
           store_id |-> NullInt, has_custom_fields |-> FALSE, custom_fields |-> <<>>]}

\* values request values of define_custom_label
DefineValueInputs ==
    { <<>>,
      << Blank >>,
      << <<"a">> >>,
      << <<"a">>, <<"A", "b">>, <<"a">> >> }

EmpIds == EmpIdStart .. (EmpIdStart + MaxEmployees - 1)

\* employees and their instance records
NextInstances ==
    \/ register_owner(<<"a">>, TRUE)
    \/ \E c \in DOMAIN employees, cf \in CfInputs :
          create_employee(c, <<"a">>, "employee", NullInt, cf)
    \/ \E c \in DOMAIN employees, e \in EmpIds, u \in UpdLabelInputs : update_employee(c, e, u)
    \/ \E c \in DOMAIN employees, e \in EmpIds : delete_employee(c, e)
    \/ \E c \in DOMAIN employees : define_custom_label(c, <<"D">>, << <<"a">> >>)
    \/ \E c \in DOMAIN employees, e \in EmpIds : get_employee(c, e)
    \/ \E c \in DOMAIN employees, n \in LabelNames : get_label_values(c, n)

SpecInstances == Init /\ [][NextInstances]_vars

\* templates next to instance records
NextTemplates ==
    \/ \E pw \in BOOLEAN : register_owner(<<"a">>, pw)
    \/ \E c \in DOMAIN employees :
          create_employee(c, <<"a">>, "manager", NullInt, << << <<<<"D">>, <<"b">>>> >> >>)
    \/ \E c \in DOMAIN employees, n \in LabelNames \cup {Blank}, v \in DefineValueInputs :
          define_custom_label(c, n, v)
    \/ \E c \in DOMAIN employees, n \in LabelNames : get_label_values(c, n)
    \/ \E c \in DOMAIN employees : get_custom_field_labels(c)

SpecTemplates == Init /\ [][NextTemplates]_vars

\* concurrent define_custom_label requests of two tenants
NextDefine ==
    \/ register_owner(<<"a">>, TRUE)
    \/ \E r \in RequestIds, c \in DOMAIN employees, n \in {<<"D">>, Blank},
          v \in {<<>>, << <<"a">> >>, << <<"A", "b">> >>} :
          define_custom_label_query(r, c, n, v)
    \/ \E r \in RequestIds : define_custom_label_commit(r)

SpecDefine == Init /\ [][NextDefine]_vars

\* values arguments of define_custom_label: missing or empty, not a list,
\* without a usable item, and lists over a, A and b with a repeated and a
\* blank item
MergeValueInputs ==
    { <<>>,
      NotAList,
      << Blank, NotAStr >>,
      << <<"a">> >>,
      << <<"A">> >>,
      << <<"b">>, Blank, <<"a">>, <<"b">> >> }

\* templates defined and merged one request at a time
NextMerge ==
    \/ register_owner(<<"a">>, TRUE)
    \/ \E c \in DOMAIN employees, n \in {<<"D">>, Blank, <<>>}, v \in MergeValueInputs :
          define_custom_label(c, n, v)
    \/ \E c \in DOMAIN employees : get_label_values(c, <<"D">>)

SpecMerge == Init /\ [][NextMerge]_vars

-----------------------------------------------------------------------------
(* routes/products.py *)

\* f"PRD{db_product.id}"
ProductIdOf(id) == <<"P", "R", "D">> \o IntToStr(id)

\* Products(business_id=str(current_user.business_id), productid=None, ...)
ProductRow(bid_str, item) ==
    [business_id |-> bid_str, productid |-> NullStr,
     barcode |-> item.barcode, sku |-> item.sku]

\* db.query(Products).filter(Products.barcode == product.barcode).first()
existing_barcode(table, barcode) == \E i \in DOMAIN table : table[i].barcode = barcode

\* db.query(Products).filter(Products.sku == product.sku).first()
existing_sku(table, sku) == \E i \in DOMAIN table : table[i].sku = sku

\* the unique index on products.productid (NULLs are distinct)
productid_taken(table, productid, id) ==
    \E i \in DOMAIN table : i # id /\ table[i].productid = productid

\* the unique index on products.sku (NULLs are distinct)
sku_taken(table, sku, id) ==
    sku # NullStr /\ \E i \in DOMAIN table : i # id /\ table[i].sku = sku

\* the state of the loop of add_products on a products table: the
\* committed rows, the rows the open transaction sees, the next serial
\* value, the errors and the created ids
LoopFrom(table, seq) ==
    [committed |-> table, tx |-> table, seq |-> seq, errors |-> <<>>, created |-> <<>>]

LoopStart == LoopFrom(products, product_seq)

ProductError(idx, field) == [product_index |-> idx, field |-> field]

\* one pass of the loop body: the two duplicate checks, the insert and its
\* flush, the productid and its flush; an IntegrityError rolls the whole
\* transaction back and the loop goes on
add_one(bid_str, item, idx, st) ==
    IF existing_barcode(st.tx, item.barcode)
    THEN [st EXCEPT !.errors = Append(@, ProductError(idx, "barcode"))]
    ELSE IF Truthy(item.sku) /\ existing_sku(st.tx, item.sku)
    THEN [st EXCEPT !.errors = Append(@, ProductError(idx, "sku"))]
    ELSE IF productid_taken(st.tx, ProductIdOf(st.seq), st.seq)
    THEN [st EXCEPT !.tx = st.committed,
                    !.seq = @ + 1,
                    !.errors = Append(@, ProductError(idx, "productid"))]
    ELSE [st EXCEPT !.tx = Insert(@, st.seq, [ProductRow(bid_str, item) EXCEPT
                                                  !.productid = ProductIdOf(st.seq)]),
                    !.seq = @ + 1,
                    !.created = Append(@, st.seq)]

RECURSIVE add_loop(_, _, _, _)
\* for idx, product in enumerate(products)
add_loop(bid_str, batch, idx, st) ==
    IF idx >= Len(batch) THEN st
    ELSE add_loop(bid_str, batch, idx + 1, add_one(bid_str, batch[idx + 1], idx, st))

\* if errors: db.rollback() ... else db.commit()
commit_products(st) == IF Len(st.errors) > 0 THEN st.committed ELSE st.tx

ProdResp(op, c, status) ==
    [op |-> op, caller |-> c, bid |-> employees[c].business_id, status |-> status,
     rows |-> {}]

\* POST /products/addProducts (requests without images)
add_products(c, batch) ==
    /\ require_role(c, {"owner", "admin", "manager"})
    /\ product_seq + Len(batch) - 1 <= MaxProducts
    /\ IF Len(batch) = 0
       THEN /\ response' = ProdResp("add_products", c, 400) @@
                   [batch |-> batch, before |-> products, seq_before |-> product_seq,
                    validation_errors |-> <<>>, successful_count |-> 0]
            /\ UNCHANGED <<products, product_seq>>
       ELSE LET st == add_loop(TenantStr(employees[c].business_id), batch, 0, LoopStart)
            IN  /\ products' = commit_products(st)
                /\ product_seq' = st.seq
                /\ response' =
                       ProdResp("add_products", c, IF Len(st.errors) > 0 THEN 400 ELSE 201) @@
                       [batch |-> batch, before |-> products, seq_before |-> product_seq,
                        validation_errors |-> st.errors,
                        successful_count |-> Len(st.created)]
    /\ UNCHANGED <<employees, emp_seq, bus_seq, business, stores, store_seq, labels,
                   label_seq, inflight, histvars>>
    /\ UNCHANGED clvars
    /\ UNCHANGED auxvars

\* PUT /products/updateProduct/{product_id}; upd carries the fields that
\* were set
update_product(c, product_id, upd) ==
    /\ require_role(c, {"owner", "admin", "manager"})
    /\ LET bid_str == TenantStr(employees[c].business_id)
           found == product_id \in DOMAIN products
                    /\ products[product_id].business_id = bid_str
           row == products[product_id]
           new == [row EXCEPT
                     !.barcode = IF upd.has_barcode THEN upd.barcode ELSE @,
                     !.sku = IF upd.has_sku THEN upd.sku ELSE @,
                     !.productid = IF upd.has_productid THEN upd.productid ELSE @]
       IN  IF ~found
           THEN /\ response' = ProdResp("update_product", c, 404)
                /\ UNCHANGED products
           ELSE IF ~(upd.has_barcode \/ upd.has_sku \/ upd.has_productid)
           THEN /\ response' = ProdResp("update_product", c, 400)
                /\ UNCHANGED products
           ELSE IF /\ upd.has_barcode /\ upd.barcode # row.barcode
                   /\ \E i \in DOMAIN products : i # product_id /\ products[i].barcode = upd.barcode
           THEN /\ response' = ProdResp("update_product", c, 400)
                /\ UNCHANGED products
           ELSE IF /\ upd.has_sku /\ Truthy(upd.sku) /\ upd.sku # row.sku
                   /\ \E i \in DOMAIN products : i # product_id /\ products[i].sku = upd.sku
           THEN /\ response' = ProdResp("update_product", c, 400)
                /\ UNCHANGED products
           ELSE IF \/ productid_taken(products, new.productid, product_id)
                   \/ sku_taken(products, new.sku, product_id)
           THEN /\ response' = ProdResp("update_product", c, 500)
                /\ UNCHANGED products
           ELSE /\ response' = ProdResp("update_product", c, 200)
                /\ products' = [products EXCEPT ![product_id] = new]
    /\ UNCHANGED <<employees, emp_seq, bus_seq, business, stores, store_seq, labels,
                   label_seq, product_seq, inflight, histvars>>
    /\ UNCHANGED clvars
    /\ UNCHANGED auxvars

\* DELETE /products/deleteProduct/{product_id}
delete_product(c, product_id) ==
    /\ require_role(c, {"owner", "admin", "manager"})
    /\ IF product_id \in DOMAIN products
          /\ products[product_id].business_id = TenantStr(employees[c].business_id)
       THEN /\ products' = Remove(products, {product_id})
            /\ response' = ProdResp("delete_product", c, 200)
       ELSE /\ response' = ProdResp("delete_product", c, 404)
            /\ UNCHANGED products
    /\ UNCHANGED <<employees, emp_seq, bus_seq, business, stores, store_seq, labels,
                   label_seq, product_seq, inflight, histvars>>
    /\ UNCHANGED clvars
    /\ UNCHANGED auxvars

\* a handler that looks the product up by id alone
owned_product_any_tenant(table, bid_str, product_id) == product_id \in DOMAIN table

\* db.query(Products).filter(Products.id == product_id,
\*                           Products.business_id == str(current_user.business_id)).first()
owned_product(table, bid_str, product_id) ==
    /\ product_id \in DOMAIN table
    /\ table[product_id].business_id = bid_str

\* one entry of results
BulkResult(idx, product_id, result) ==
    [product_index |-> idx, product_id |-> product_id, status |-> result]

\* one turn of the loop: the product is deleted and the deletion committed,
\* or a failed entry is appended
bulk_one(st, bid_str, idx, product_id) ==
    IF ~owned_product(st.table, bid_str, product_id)
    THEN [st EXCEPT !.results = Append(@, BulkResult(idx, product_id, "failed")),
                    !.failed_count = @ + 1]
    ELSE [st EXCEPT !.table = Remove(@, {product_id}),
                    !.results = Append(@, BulkResult(idx, product_id, "success")),
                    !.successful_count = @ + 1]

RECURSIVE bulk_loop(_, _, _, _)
\* for idx, product_id in enumerate(product_ids)
bulk_loop(bid_str, product_ids, idx, st) ==
    IF idx >= Len(product_ids) THEN st
    ELSE bulk_loop(bid_str, product_ids, idx + 1,
                   bulk_one(st, bid_str, idx, product_ids[idx + 1]))

\* DELETE /products/deleteProducts
delete_products_bulk(c, product_ids) ==
    /\ require_role(c, {"owner", "admin", "manager"})
    /\ IF Len(product_ids) = 0
       THEN /\ response' = ProdResp("delete_products_bulk", c, 400) @@
                   [product_ids |-> product_ids, before |-> products]
            /\ UNCHANGED products
       ELSE LET st == bulk_loop(TenantStr(employees[c].business_id), product_ids, 0,
                                [table |-> products, results |-> <<>>,
                                 successful_count |-> 0, failed_count |-> 0])
            IN  /\ products' = st.table
                /\ response' = ProdResp("delete_products_bulk", c, 200) @@
                       [product_ids |-> product_ids, before |-> products,
                        summary |-> [total |-> Len(product_ids),
                                     successful |-> st.successful_count,
                                     failed |-> st.failed_count],
                        results |-> st.results]
    /\ UNCHANGED <<employees, emp_seq, bus_seq, business, stores, store_seq, labels,
                   label_seq, product_seq, inflight, histvars>>
    /\ UNCHANGED clvars
    /\ UNCHANGED auxvars

ProductRows(ids) == {<<"products", i, products[i].business_id>> : i \in ids}

\* GET /products/getProducts (first page)
get_products(c) ==
    /\ get_current_employee(c)
    /\ LET ids == {i \in DOMAIN products :
                      products[i].business_id = TenantStr(employees[c].business_id)}
       IN  response' = [ProdResp("get_products", c, 200) EXCEPT !.rows = ProductRows(ids)] @@
                       [total |-> Cardinality(ids)]
    /\ UNCHANGED <<dbvars, inflight, histvars>>
    /\ UNCHANGED clvars
    /\ UNCHANGED auxvars

\* GET /products/getProduct/{product_id}
get_product_by_id(c, product_id) ==
    /\ get_current_employee(c)
    /\ response' =
           IF /\ product_id \in DOMAIN products
              /\ products[product_id].business_id = TenantStr(employees[c].business_id)
           THEN [ProdResp("get_product_by_id", c, 200) EXCEPT !.rows = ProductRows({product_id})]
           ELSE ProdResp("get_product_by_id", c, 404)
    /\ UNCHANGED <<dbvars, inflight, histvars>>
    /\ UNCHANGED clvars
    /\ UNCHANGED auxvars

\* GET /products/getProductByProductId/{productid}
get_product_by_productid(c, productid) ==
    /\ get_current_employee(c)
    /\ LET ids == {i \in DOMAIN products :
                      /\ products[i].productid = productid
                      /\ products[i].business_id = TenantStr(employees[c].business_id)}
       IN  response' =
               IF ids # {}
               THEN [ProdResp("get_product_by_productid", c, 200) EXCEPT !.rows = ProductRows(ids)]
               ELSE ProdResp("get_product_by_productid", c, 404)
    /\ UNCHANGED <<dbvars, inflight, histvars>>
    /\ UNCHANGED clvars
    /\ UNCHANGED auxvars

\* GET /products/searchProducts?query=... over the columns the model keeps
search_products(c, query) ==
    /\ get_current_employee(c)
    /\ LET ids == {i \in DOMAIN products :
                      /\ products[i].business_id = TenantStr(employees[c].business_id)
                      /\ (Truthy(query) =>
                             \/ ILikeContains(products[i].productid, query)
                             \/ ILikeContains(products[i].barcode, query)
                             \/ ILikeContains(products[i].sku, query))}
       IN  response' = [ProdResp("search_products", c, 200) EXCEPT !.rows = ProductRows(ids)]
    /\ UNCHANGED <<dbvars, inflight, histvars>>
    /\ UNCHANGED clvars
    /\ UNCHANGED auxvars

\* request items of add_products: three barcodes, two items with the same SKU
ProductItems ==
    { [barcode |-> <<"x">>, sku |-> NullStr],
      [barcode |-> <<"x">>, sku |-> <<"s">>],
      [barcode |-> <<"y">>, sku |-> <<"s">>],
      [barcode |-> <<"z">>, sku |-> NullStr] }

RECURSIVE SeqsUpTo(_, _)
\* the sequences over S of length at most n
SeqsUpTo(S, n) ==
    IF n = 0 THEN {<<>>}
    ELSE LET shorter == SeqsUpTo(S, n - 1)
         IN  shorter \cup {Append(q, x) : q \in shorter, x \in S}

\* request bodies of update_product
ProductUpdates ==
    {[has_barcode |-> FALSE, barcode |-> NullStr, has_sku |-> FALSE, sku |-> NullStr,
      has_productid |-> TRUE, productid |-> ProductIdOf(id)] : id \in 2..3}
    \cup {[has_barcode |-> TRUE, barcode |-> <<"y">>, has_sku |-> TRUE, sku |-> <<"s">>,
           has_productid |-> FALSE, productid |-> NullStr],
          [has_barcode |-> FALSE, barcode |-> NullStr, has_sku |-> FALSE, sku |-> NullStr,
           has_productid |-> FALSE, productid |-> NullStr]}

ProductIds == 1..MaxProducts

\* products of two tenants
NextProducts ==
    \/ register_owner(<<"a">>, TRUE)
    \/ \E c \in DOMAIN employees, batch \in SeqsUpTo(ProductItems, MaxBatch) :
          add_products(c, batch)
    \/ \E c \in DOMAIN employees, id \in ProductIds, upd \in ProductUpdates :
          update_product(c, id, upd)
    \/ \E c \in DOMAIN employees, id \in ProductIds : delete_product(c, id)

SpecProducts == Init /\ [][NextProducts]_vars

\* products of two tenants, added one at a time and deleted in bulk
BulkIds == 1..(MaxProducts - 1)

NextBulk ==
    \/ register_owner(<<"a">>, TRUE)
    \/ \E c \in DOMAIN employees, batch \in SeqsUpTo(ProductItems, 1) :
          product_seq \in BulkIds /\ add_products(c, batch)
    \/ \E c \in DOMAIN employees, product_ids \in SeqsUpTo(BulkIds, MaxBatch) :
          delete_products_bulk(c, product_ids)

SpecBulk == Init /\ [][NextBulk]_vars

-----------------------------------------------------------------------------
(* Employees and their roles *)

\* role values of request bodies: the schema types role as str
RoleInputs == {"employee", "manager", "superuser"}

\* a request body of update_employee that sets role
UpdRoleInput(role) ==
    [has_role |-> TRUE, role |-> role, has_store_id |-> FALSE,
     store_id |-> NullInt, has_custom_fields |-> FALSE, custom_fields |-> <<>>]

NextRoles ==
    \/ register_owner(<<"a">>, TRUE)
    \/ \E c \in DOMAIN employees, role \in RoleInputs :
          create_employee(c, <<"a">>, role, NullInt, <<>>)
    \/ \E c \in DOMAIN employees, e \in EmpIds, role \in RoleInputs :
          update_employee(c, e, UpdRoleInput(role))
    \/ \E c \in DOMAIN employees, e \in EmpIds : delete_employee(c, e)

SpecRoles == Init /\ [][NextRoles]_vars

-----------------------------------------------------------------------------
(* update_employee next to concurrent reads: the handler commits the
   profile fields, then deletes and adds the employee_labels rows in a
   second transaction that it commits at the end; a reader sees committed
   rows only (READ COMMITTED, the default of PostgreSQL) *)

\* a session whose DELETE is committed at once
visible_labels_autocommit(table, in_flight) ==
    Remove(table, UNION {in_flight[r].deleted : r \in DOMAIN in_flight})

\* the employee_labels rows a reader's query sees while the requests
\* in_flight have statements that are not committed
visible_labels(table, in_flight) == table

\* PUT /employees/{emp_id} up to the first db.commit()
update_employee_fields(r, c, emp_id, upd) ==
    /\ r \notin DOMAIN updating
    /\ get_current_employee(c)
    /\ IF ~(emp_id \in DOMAIN employees
            /\ employees[emp_id].business_id = employees[c].business_id)
       THEN /\ response' = [EmpResp("update_employee", c, 404) EXCEPT !.emp_id = emp_id]
            /\ UNCHANGED <<employees, updating>>
       ELSE IF c # emp_id /\ employees[c].role \notin {"owner", "admin", "manager"}
       THEN /\ response' = [EmpResp("update_employee", c, 403) EXCEPT !.emp_id = emp_id]
            /\ UNCHANGED <<employees, updating>>
       ELSE /\ employees' = [employees EXCEPT ![emp_id] = SetFields(@, upd)]
            /\ IF upd.has_custom_fields
               THEN /\ updating' = Insert(updating, r,
                                          [caller |-> c, emp_id |-> emp_id,
                                           pairs |-> Flatten(upd.custom_fields),
                                           phase |-> "fields committed", deleted |-> {}])
                    /\ UNCHANGED response
               ELSE /\ response' =
                           [EmpResp("update_employee", c, 200) EXCEPT !.emp_id = emp_id]
                           @@ [has_custom_fields |-> FALSE]
                    /\ UNCHANGED updating
    /\ UNCHANGED <<emp_seq, bus_seq, business, stores, store_seq, labels, label_seq,
                   products, product_seq, inflight, histvars, clvars,
                   business_seq, otp_storage, now, g_used, storing>>

\* db.query(EmployeeLabel).filter(EmployeeLabel.emp_id == emp_id).delete():
\* the statement runs in the open transaction and is not committed
update_employee_delete(r) ==
    /\ r \in DOMAIN updating
    /\ updating[r].phase = "fields committed"
    /\ updating' = [updating EXCEPT
                       ![r].phase = "deleted",
                       ![r].deleted = {i \in DOMAIN labels :
                                          /\ labels[i].emp_id # NullInt
                                          /\ labels[i].emp_id = updating[r].emp_id}]
    /\ UNCHANGED <<dbvars, response, inflight, histvars, clvars,
                   business_seq, otp_storage, now, g_used, storing>>

\* the db.add(label) of every item and the second db.commit()
update_employee_labels(r) ==
    /\ r \in DOMAIN updating
    /\ updating[r].phase = "deleted"
    /\ LET req == updating[r]
           bid == employees[req.emp_id].business_id
       IN  /\ label_seq + Len(req.pairs) - 1 <= MaxLabelRows
           /\ labels' = AddInstances(Remove(labels, req.deleted), label_seq,
                                     req.emp_id, bid, req.pairs)
           /\ label_seq' = label_seq + Len(req.pairs)
           /\ g_last_cf' = [g_last_cf EXCEPT ![req.emp_id] = req.pairs]
           /\ g_ever' = g_ever \cup InstanceValues(labels')
           /\ response' =
                  [EmpResp("update_employee", req.caller, 200) EXCEPT !.emp_id = req.emp_id]
                  @@ [has_custom_fields |-> TRUE]
    /\ updating' = Remove(updating, {r})
    /\ UNCHANGED <<employees, emp_seq, bus_seq, business, stores, store_seq, products,
                   product_seq, inflight, g_created, g_deleted, clvars,
                   business_seq, otp_storage, now, g_used, storing>>

\* GET /employees/{emp_id} while updates are in flight
get_employee_concurrent(c, emp_id) ==
    /\ require_role(c, {"owner", "admin", "manager"})
    /\ emp_id \in DOMAIN employees
    /\ employees[emp_id].business_id = employees[c].business_id
    /\ LET seen == visible_labels(labels, updating)
           label_ids == {i \in DOMAIN seen : /\ seen[i].emp_id # NullInt
                                             /\ seen[i].emp_id = emp_id
                                             /\ seen[i].business_id = employees[emp_id].business_id}
       IN  response' =
               [op |-> "get_employee", caller |-> c, bid |-> employees[c].business_id,
                status |-> 200, emp_id |-> emp_id,
                rows |-> EmpDictRows(emp_id, StoreOfEmployee(emp_id), label_ids),
                body |-> EmpDict(emp_id, StoreOfEmployee(emp_id), label_ids)]
    /\ UNCHANGED <<dbvars, inflight, histvars, clvars, auxvars>>

\* one update_employee request at a time, and reads between its steps
NextUpdating ==
    \/ register_owner(<<"a">>, TRUE)
    \/ \E c \in DOMAIN employees, cf \in CfInputs :
          create_employee(c, <<"a">>, "employee", NullInt, cf)
    \/ \E c \in DOMAIN employees, e \in EmpIds, u \in UpdLabelInputs :
          updating = <<>> /\ update_employee_fields(1, c, e, u)
    \/ \E r \in DOMAIN updating : update_employee_delete(r)
    \/ \E r \in DOMAIN updating : update_employee_labels(r)
    \/ \E c \in DOMAIN employees, e \in EmpIds : get_employee_concurrent(c, e)

SpecUpdating == Init /\ [][NextUpdating]_vars

-----------------------------------------------------------------------------
(* utils/otp_service.py: the in-memory store of one-time codes; now is the
   reading of datetime.now() in minutes *)

OTP_EXPIRY_MINUTES == 10

\* the clock stops here
MaxNow == 11

Emails == {"x@a", "y@a"}
Otps == {"123456", "654321"}
Purposes == {"forgot_username", "forgot_password"}

\* Python's None
None == "None"

\* f"USR{employee.emp_id}" of the employee with the email
UserIdOf(email) == IF email = "x@a" THEN "USR1000" ELSE "USR1001"

\* mutant: a code is expired from the minute expires_at on
expired_at_the_minute(at, expires_at) == at >= expires_at

\* datetime.now() > stored_data["expires_at"]
expired(at, expires_at) == at > expires_at

\* mutant: a verified code stays in the store
after_verified_kept(storage, email) == storage

\* del otp_storage[email] after a successful verification
after_verified(storage, email) == Remove(storage, {email})

\* what a call of the module leaves for the claims: its arguments, the
\* entry it found, the clock and the verified codes that were not replaced
OtpResp(op, email, otp, purpose, result) ==
    [op |-> op, caller |-> NullInt, bid |-> NullInt, status |-> 0,
     email |-> email, otp |-> otp, purpose |-> purpose, result |-> result,
     at |-> now, found |-> email \in DOMAIN otp_storage,
     entry |-> IF email \in DOMAIN otp_storage THEN otp_storage[email]
               ELSE [otp |-> None, expires_at |-> 0, user_id |-> None, purpose |-> None],
     used |-> g_used]

\* store_otp(email, user_id, purpose); generate_otp() draws the code
store_otp(email, user_id, purpose) ==
    /\ \E otp \in Otps :
          /\ otp_storage' = Insert(otp_storage, email,
                                   [otp |-> otp, expires_at |-> now + OTP_EXPIRY_MINUTES,
                                    user_id |-> user_id, purpose |-> purpose])
          /\ response' = OtpResp("store_otp", email, otp, purpose, otp)
    /\ g_used' = {u \in g_used : u[1] # email}
    /\ UNCHANGED <<dbvars, inflight, histvars, clvars, business_seq, now, storing, updating>>

\* verify_otp(email, otp, purpose)
verify_otp(email, otp, purpose) ==
    /\ IF email \notin DOMAIN otp_storage
       THEN /\ response' = OtpResp("verify_otp", email, otp, purpose, None)
            /\ UNCHANGED <<otp_storage, g_used>>
       ELSE IF expired(now, otp_storage[email].expires_at)
       THEN /\ otp_storage' = Remove(otp_storage, {email})
            /\ response' = OtpResp("verify_otp", email, otp, purpose, None)
            /\ UNCHANGED g_used
       ELSE IF otp_storage[email].otp # otp \/ otp_storage[email].purpose # purpose
       THEN /\ response' = OtpResp("verify_otp", email, otp, purpose, None)
            /\ UNCHANGED <<otp_storage, g_used>>
       ELSE /\ otp_storage' = after_verified(otp_storage, email)
            /\ g_used' = g_used \cup {<<email, otp, purpose>>}
            /\ response' = OtpResp("verify_otp", email, otp, purpose,
                                   otp_storage[email].user_id)
    /\ UNCHANGED <<dbvars, inflight, histvars, clvars, business_seq, now, storing, updating>>

\* a minute passes
Tick ==
    /\ now < MaxNow
    /\ now' = now + 1
    /\ UNCHANGED <<dbvars, response, inflight, histvars, clvars, business_seq,
                   otp_storage, g_used, storing, updating>>

NextOtp ==
    \/ \E email \in Emails, purpose \in Purposes : store_otp(email, UserIdOf(email), purpose)
    \/ \E email \in Emails, otp \in Otps, purpose \in Purposes : verify_otp(email, otp, purpose)
    \/ Tick

SpecOtp == Init /\ [][NextOtp]_vars

-----------------------------------------------------------------------------
(* routes/custom_labels.py *)

\* CustomLabel(label_name=..., label_values=..., business_id=...); the
\* array column keeps the order and the repetitions of the list
CustomLabelRow(bid, label_name, label_values) ==
    [label_name |-> label_name, label_values |-> label_values,
     label_type |-> "employee", business_id |-> bid]

\* a query that ignores the tenant of the caller
labels_named_any_tenant(table, bid, label_name) ==
    {i \in DOMAIN table : table[i].label_name = label_name}

\* db.query(CustomLabel).filter(CustomLabel.business_id == current_employee.business_id,
\*                              CustomLabel.label_name == label_name)
labels_named(table, bid, label_name) ==
    {i \in DOMAIN table : /\ table[i].business_id = bid
                          /\ table[i].label_name = label_name}

\* an index that lets every insert pass
custom_label_index_violated_never(table, bid, label_name) == FALSE

\* Index('idx_business_label_name_type', 'business_id', 'label_name',
\*       'label_type', unique=True) against a new row of the default type
custom_label_index_violated(table, bid, label_name) ==
    \E i \in DOMAIN table : /\ table[i].business_id = bid
                            /\ table[i].label_name = label_name
                            /\ table[i].label_type = "employee"

CustomResp(op, c, status, detail) ==
    [op |-> op, caller |-> c, bid |-> employees[c].business_id, status |-> status,
     rows |-> {}, detail |-> detail, before |-> custom_labels]

\* POST /custom-labels, run without another request in between
create_custom_label(c, label_name, label_values) ==
    /\ require_role(c, {"owner", "admin", "manager"})
    /\ custom_label_seq <= MaxCustomLabels
    /\ LET bid == employees[c].business_id
       IN  IF labels_named(custom_labels, bid, label_name) # {}
           THEN /\ response' = CustomResp("create_custom_label", c, 400, "already exists") @@
                       [label_name |-> label_name, label_values |-> label_values]
                /\ UNCHANGED <<custom_labels, custom_label_seq>>
           ELSE /\ custom_labels' = Insert(custom_labels, custom_label_seq,
                                           CustomLabelRow(bid, label_name, label_values))
                /\ custom_label_seq' = custom_label_seq + 1
                /\ response' = CustomResp("create_custom_label", c, 201, "created") @@
                       [label_name |-> label_name, label_values |-> label_values]
    /\ UNCHANGED <<dbvars, inflight, histvars, creating>>
    /\ UNCHANGED auxvars

\* POST /custom-labels up to the query of existing_label
create_custom_label_query(r, c, label_name, label_values) ==
    /\ r \notin DOMAIN creating
    /\ require_role(c, {"owner", "admin", "manager"})
    /\ LET bid == employees[c].business_id
       IN  IF labels_named(custom_labels, bid, label_name) # {}
           THEN /\ response' = CustomResp("create_custom_label", c, 400, "already exists") @@
                       [label_name |-> label_name, label_values |-> label_values]
                /\ UNCHANGED creating
           ELSE /\ creating' = Insert(creating, r,
                       [caller |-> c, label_name |-> label_name,
                        label_values |-> label_values])
                /\ UNCHANGED response
    /\ UNCHANGED <<dbvars, inflight, histvars, custom_labels, custom_label_seq>>
    /\ UNCHANGED auxvars

\* POST /custom-labels from db.add on: the insert takes an id of the serial
\* and is committed, or fails on the unique index, is rolled back and
\* answered by the except branch
create_custom_label_commit(r) ==
    /\ r \in DOMAIN creating
    /\ custom_label_seq <= MaxCustomLabels
    /\ creating' = Remove(creating, {r})
    /\ custom_label_seq' = custom_label_seq + 1
    /\ LET req == creating[r]
           c == req.caller
           bid == employees[c].business_id
       IN  IF custom_label_index_violated(custom_labels, bid, req.label_name)
           THEN /\ response' = CustomResp("create_custom_label", c, 500, "failed to create") @@
                       [label_name |-> req.label_name, label_values |-> req.label_values]
                /\ UNCHANGED custom_labels
           ELSE /\ custom_labels' = Insert(custom_labels, custom_label_seq,
                       CustomLabelRow(bid, req.label_name, req.label_values))
                /\ response' = CustomResp("create_custom_label", c, 201, "created") @@
                       [label_name |-> req.label_name, label_values |-> req.label_values]
    /\ UNCHANGED <<dbvars, inflight, histvars>>
    /\ UNCHANGED auxvars

\* a handler that appends the new values to the stored ones
new_label_values_merged(current_values, label_values) == current_values \o label_values

\* if label_data.label_values: label.label_values = label_data.label_values
new_label_values(current_values, label_values) ==
    IF Len(label_values) > 0 THEN label_values ELSE current_values

\* PUT /custom-labels/{label_id}; upd.label_name is NullStr when the body
\* has no label_name
update_custom_label(c, label_id, upd) ==
    /\ require_role(c, {"owner", "admin", "manager"})
    /\ LET bid == employees[c].business_id
           req == [label_id |-> label_id, label_name |-> upd.label_name,
                   label_values |-> upd.label_values]
       IN  IF ~(label_id \in DOMAIN custom_labels /\ custom_labels[label_id].business_id = bid)
           THEN /\ response' = CustomResp("update_custom_label", c, 404, "not found") @@ req
                /\ UNCHANGED custom_labels
           ELSE IF /\ Truthy(upd.label_name)
                   /\ labels_named(custom_labels, bid, upd.label_name) \ {label_id} # {}
           THEN /\ response' = CustomResp("update_custom_label", c, 400, "already exists") @@ req
                /\ UNCHANGED custom_labels
           ELSE /\ custom_labels' =
                       [custom_labels EXCEPT
                           ![label_id].label_name =
                               IF Truthy(upd.label_name) THEN upd.label_name ELSE @,
                           ![label_id].label_values = new_label_values(@, upd.label_values)]
                /\ response' = CustomResp("update_custom_label", c, 200, "updated") @@ req
    /\ UNCHANGED <<dbvars, inflight, histvars, custom_label_seq, creating>>
    /\ UNCHANGED auxvars

\* DELETE /custom-labels/{label_id}
delete_custom_label(c, label_id) ==
    /\ require_role(c, {"owner", "admin"})
    /\ IF ~(/\ label_id \in DOMAIN custom_labels
            /\ custom_labels[label_id].business_id = employees[c].business_id)
       THEN /\ response' = CustomResp("delete_custom_label", c, 404, "not found") @@
                   [label_id |-> label_id]
            /\ UNCHANGED custom_labels
       ELSE /\ custom_labels' = Remove(custom_labels, {label_id})
            /\ response' = CustomResp("delete_custom_label", c, 200, "deleted") @@
                   [label_id |-> label_id]
    /\ UNCHANGED <<dbvars, inflight, histvars, custom_label_seq, creating>>
    /\ UNCHANGED auxvars

\* what .first() answers for the label of that name: a row of the query, or
\* nothing when the query has no row
first_label_values(table, bid, label_name) ==
    IF labels_named(table, bid, label_name) = {} THEN {<<>>}
    ELSE {table[i].label_values : i \in labels_named(table, bid, label_name)}

\* GET /custom-labels-values/{label_name}
get_custom_label_values(c, label_name) ==
    /\ require_role(c, {"owner", "admin", "manager"})
    /\ \E values \in first_label_values(custom_labels, employees[c].business_id, label_name) :
          response' =
              [CustomResp("get_custom_label_values", c, 200, "values") EXCEPT
                  !.rows = {<<"custom_labels", i, TenantStr(custom_labels[i].business_id)>> :
                              i \in {j \in labels_named(custom_labels,
                                                        employees[c].business_id, label_name) :
                                         custom_labels[j].label_values = values}}] @@
              [label_name |-> label_name, values |-> values]
    /\ UNCHANGED <<dbvars, inflight, histvars, clvars>>
    /\ UNCHANGED auxvars

\* label_values request values: one value, two values, a value twice
CustomValueInputs ==
    { << <<"a">> >>, << <<"b">>, <<"a">> >>, << <<"a">>, <<"a">> >> }

\* request bodies of update_custom_label: values alone, or a new name too
CustomUpdates ==
    {[label_name |-> n, label_values |-> v] :
        n \in {NullStr} \cup LabelNames, v \in CustomValueInputs}

CustomLabelIds == 1..MaxCustomLabels

\* custom labels of two tenants, one request at a time
NextCustom ==
    \/ register_owner(<<"a">>, TRUE)
    \/ \E c \in DOMAIN employees, n \in LabelNames, v \in CustomValueInputs :
          create_custom_label(c, n, v)
    \/ \E c \in DOMAIN employees, id \in CustomLabelIds, upd \in CustomUpdates :
          update_custom_label(c, id, upd)
    \/ \E c \in DOMAIN employees, id \in CustomLabelIds : delete_custom_label(c, id)
    \/ \E c \in DOMAIN employees, n \in LabelNames : get_custom_label_values(c, n)

SpecCustom == Init /\ [][NextCustom]_vars

\* create requests of two tenants whose steps interleave
NextCreate ==
    \/ register_owner(<<"a">>, TRUE)
    \/ \E r \in RequestIds, c \in DOMAIN employees, n \in LabelNames,
          v \in {<< <<"a">> >>, << <<"b">>, <<"a">> >>} :
          create_custom_label_query(r, c, n, v)
    \/ \E r \in RequestIds : create_custom_label_commit(r)
    \/ \E c \in DOMAIN employees, n \in LabelNames : get_custom_label_values(c, n)

SpecCreate == Init /\ [][NextCreate]_vars

-----------------------------------------------------------------------------
(* routes/employees.py: register_employee *)

\* POST /employees/register : the Employee is built without business_id, so
\* the column takes the next value of employee_business_id_seq; a Business
\* row is added for that value. The custom_fields of the body go to the JSON
\* column, not to employee_labels.
register_employee(c, name, role) ==
    /\ require_role(c, {"owner", "admin"})
    /\ emp_seq < EmpIdStart + MaxEmployees
    /\ bus_seq < BusinessIdStart + MaxTenants
    /\ employees' = Insert(employees, emp_seq,
                           [business_id |-> bus_seq, role |-> role,
                            name |-> name, store_id |-> NullStr])
    /\ emp_seq' = emp_seq + 1
    /\ bus_seq' = bus_seq + 1
    /\ business' = Insert(business, business_seq, BusinessRow(TenantStr(bus_seq), <<>>, <<>>))
    /\ business_seq' = business_seq + 1
    /\ g_last_cf' = Insert(g_last_cf, emp_seq, <<>>)
    /\ response' = [EmpResp("register_employee", c, 201) EXCEPT !.emp_id = emp_seq]
    /\ UNCHANGED <<stores, store_seq, labels, label_seq, products, product_seq,
                   inflight, g_created, g_deleted, g_ever, clvars,
                   otp_storage, now, g_used, storing, updating>>

-----------------------------------------------------------------------------
(* routes/business.py *)

\* str(uuid.uuid4())
Uuid == <<"u", "u", "i", "d">>

\* what db.query(Business).first() may answer: the query has no filter and
\* no ORDER BY, any row of the table can come first
first_business == DOMAIN business

\* the rows update_business, upload_logo and get_business work on
business_of_request(c) == first_business

BusinessResp(op, c, status, ids) ==
    [op |-> op, caller |-> c, bid |-> employees[c].business_id, status |-> status,
     rows |-> {<<"business", i, business[i].business_id>> : i \in ids},
     before |-> business]

\* POST /business/
create_business(c, business_name) ==
    /\ require_role(c, {"owner"})
    /\ IF Len(Strip(business_name)) = 0
       THEN /\ response' = BusinessResp("create_business", c, 400, {})
            /\ UNCHANGED <<business, business_seq>>
       ELSE IF first_business # {}
       THEN /\ response' = BusinessResp("create_business", c, 400, {})
            /\ UNCHANGED <<business, business_seq>>
       ELSE /\ business' = Insert(business, business_seq,
                                  BusinessRow(Uuid, business_name, employees[c].name))
            /\ business_seq' = business_seq + 1
            /\ response' = BusinessResp("create_business", c, 201, {})
    /\ UNCHANGED <<employees, emp_seq, bus_seq, stores, store_seq, labels, label_seq,
                   products, product_seq, inflight, histvars, clvars,
                   otp_storage, now, g_used, storing, updating>>

\* GET /business/
get_business(c) ==
    /\ get_current_employee(c)
    /\ IF business_of_request(c) = {}
       THEN response' = BusinessResp("get_business", c, 404, {})
       ELSE \E i \in business_of_request(c) :
               response' = BusinessResp("get_business", c, 200, {i})
    /\ UNCHANGED <<dbvars, inflight, histvars, clvars, auxvars>>

\* PUT /business/ ; business_name is NullStr when the body does not set it,
\* and the body sets nothing else
update_business(c, business_name) ==
    /\ require_role(c, {"owner", "admin"})
    /\ IF business_of_request(c) = {}
       THEN /\ response' = BusinessResp("update_business", c, 404, {})
            /\ UNCHANGED business
       ELSE IF business_name = NullStr \/ Len(Strip(business_name)) = 0
       THEN /\ response' = BusinessResp("update_business", c, 400, {})
            /\ UNCHANGED business
       ELSE \E i \in business_of_request(c) :
               /\ business' = [business EXCEPT ![i].business_name = business_name]
               /\ response' = BusinessResp("update_business", c, 200, {i})
    /\ UNCHANGED <<employees, emp_seq, bus_seq, stores, store_seq, labels, label_seq,
                   products, product_seq, inflight, histvars, clvars, auxvars>>

\* POST /business/upload-logo ; file_ok: the type is allowed and the size is
\* between 1 byte and 5 MB
upload_logo(c, file_ok, file_content) ==
    /\ require_role(c, {"owner", "admin"})
    /\ IF ~file_ok
       THEN /\ response' = BusinessResp("upload_logo", c, 400, {})
            /\ UNCHANGED business
       ELSE IF business_of_request(c) = {}
       THEN /\ response' = BusinessResp("upload_logo", c, 404, {})
            /\ UNCHANGED business
       ELSE \E i \in business_of_request(c) :
               /\ business' = [business EXCEPT ![i].logo_data = file_content]
               /\ response' = BusinessResp("upload_logo", c, 200, {i})
    /\ UNCHANGED <<employees, emp_seq, bus_seq, stores, store_seq, labels, label_seq,
                   products, product_seq, inflight, histvars, clvars, auxvars>>

\* tenants and their Business rows
NextBusiness ==
    \/ register_owner(<<"a">>, TRUE)
    \/ \E c \in DOMAIN employees, role \in {"employee", "admin"} :
          register_employee(c, <<"S">>, role)
    \/ \E c \in DOMAIN employees : create_employee(c, <<"S">>, "admin", NullInt, <<>>)
    \/ \E c \in DOMAIN employees, n \in {<<"B">>, Blank} : create_business(c, n)
    \/ \E c \in DOMAIN employees : get_business(c)
    \/ \E c \in DOMAIN employees, n \in {NullStr, <<"B">>, <<"D">>} : update_business(c, n)
    \/ \E c \in DOMAIN employees, ok \in BOOLEAN : upload_logo(c, ok, <<"a">>)

SpecBusiness == Init /\ [][NextBusiness]_vars

-----------------------------------------------------------------------------
(* Two tenants and every read *)

\* a request body of update_employee that sets store_id
UpdStoreInput ==
    [has_role |-> FALSE, role |-> "employee", has_store_id |-> TRUE,
     store_id |-> 1, has_custom_fields |-> FALSE, custom_fields |-> <<>>]

NextIso ==
    \/ register_owner(<<"a">>, TRUE)
    \/ \E c \in DOMAIN employees : store_seq <= 2 /\ create_store(c, <<"a">>)
    \/ \E c \in DOMAIN employees, sid \in 0..1 :
          create_employee(c, <<"a">>, "manager", sid, << << <<<<"D">>, <<"a">>>> >> >>)
    \/ \E c \in DOMAIN employees, e \in EmpIds : update_employee(c, e, UpdStoreInput)
    \/ \E c \in DOMAIN employees :
          /\ product_seq <= 2
          /\ add_products(c, <<[barcode |-> IntToStr(product_seq), sku |-> NullStr]>>)
    \/ \E c \in DOMAIN employees, e \in EmpIds : get_employee(c, e)
    \/ \E c \in DOMAIN employees : get_employees(c, 0, DefaultLimit, NullStr, NullStr, <<>>)
    \/ \E c \in DOMAIN employees, i \in 1..2 : get_store(c, i)
    \/ \E c \in DOMAIN employees : get_stores(c)
    \/ \E c \in DOMAIN employees : get_products(c)
    \/ \E c \in DOMAIN employees, i \in 1..2 : get_product_by_id(c, i)
    \/ \E c \in DOMAIN employees : get_product_by_productid(c, ProductIdOf(1))
    \/ \E c \in DOMAIN employees : search_products(c, <<"1">>)
    \/ \E c \in DOMAIN employees : get_custom_field_labels(c)
    \/ \E c \in DOMAIN employees : get_label_values(c, <<"D">>)

SpecIso == Init /\ [][NextIso]_vars

\* filter criteria: custom labels with a plain value, a value in another
\* case, a LIKE wildcard, an empty value and a value no record has; built-in
\* columns
Criteria ==
    { [field |-> <<"custom_", "D">>, value |-> <<"a">>],
      [field |-> <<"custom_", "D">>, value |-> <<"B">>],
      [field |-> <<"custom_", "D">>, value |-> <<"_">>],
      [field |-> <<"custom_", "D">>, value |-> <<>>],
      [field |-> <<"custom_", "B">>, value |-> <<"s">>],
      [field |-> <<"name">>, value |-> <<"A">>],
      [field |-> <<"emp_id">>, value |-> <<"1", "0", "0", "1">>],
      [field |-> <<"store_id">>, value |-> <<"a">>] }

\* the parsed filters parameter: absent, one criterion, or two criteria of
\* which one is the custom criterion no record matches
FilterLists ==
    {<<>>} \cup {<<x>> : x \in Criteria}
    \cup {<<x, [field |-> <<"custom_", "B">>, value |-> <<"s">>]>> : x \in Criteria}
    \cup {<<[field |-> <<"custom_", "B">>, value |-> <<"s">>], x>> : x \in Criteria}

\* the legacy filter_field / filter_value pair: absent or given
LegacyFilters ==
    { [field |-> <<"custom_", "B">>, value |-> <<"s">>],
      [field |-> <<"role">>, value |-> <<"O", "w">>] }

\* employees with instance records, listed under filters
NextFilter ==
    \/ register_owner(<<"a">>, TRUE)
    \/ \E c \in DOMAIN employees, cf \in CfInputs :
          create_employee(c, <<"S">>, "employee", NullInt, cf)
    \/ \E c \in DOMAIN employees, fl \in FilterLists :
          get_employees(c, 0, DefaultLimit, NullStr, NullStr, fl)
    \/ \E c \in DOMAIN employees, lg \in LegacyFilters,
          fl \in {<<>>, <<[field |-> <<"name">>, value |-> <<"A">>]>>} :
          get_employees(c, 0, DefaultLimit, lg.field, lg.value, fl)
    \/ \E c \in DOMAIN employees, lim \in 1..2 :
          get_employees(c, 1, lim, NullStr, NullStr, <<>>)

SpecFilter == Init /\ [][NextFilter]_vars

\* values of an emp_id criterion: the emp_id of an employee, a number no
\* employee has, and values that are not numbers
EmpIdValues ==
    { IntToStr(EmpIdStart), IntToStr(EmpIdStart + 1), <<"9">>, <<"a">>, <<"1", "a">> }

\* employees listed under an emp_id criterion, given in the filters list or
\* as the legacy pair
NextEmpId ==
    \/ register_owner(<<"a">>, TRUE)
    \/ \E c \in DOMAIN employees, role \in {"employee", "manager"} :
          create_employee(c, <<"S">>, role, NullInt, <<>>)
    \/ \E c \in DOMAIN employees, v \in EmpIdValues :
          get_employees(c, 0, DefaultLimit, NullStr, NullStr,
                        <<[field |-> <<"emp_id">>, value |-> v]>>)
    \/ \E c \in DOMAIN employees, v \in EmpIdValues :
          get_employees(c, 0, DefaultLimit, <<"emp_id">>, v, <<>>)

SpecEmpId == Init /\ [][NextEmpId]_vars

\* custom_fields request values whose label name is D, or a name that
\* itself contains custom_
PrefixCfInputs ==
    { <<>>,
      << << <<<<"D">>, <<"a">>>> >> >>,
      << << <<<<"custom_", "D">>, <<"a">>>> >> >>,
      << << <<<<"B", "custom_">>, <<"a">>>> >> >> }

\* criteria whose field is custom_ followed by one of these label names
PrefixCriteria ==
    { [field |-> <<"custom_", "D">>, value |-> <<"a">>],
      [field |-> <<"custom_", "custom_", "D">>, value |-> <<"a">>],
      [field |-> <<"custom_", "B", "custom_">>, value |-> <<"a">>] }

\* employees with records of such labels, listed under such criteria
NextPrefix ==
    \/ register_owner(<<"a">>, TRUE)
    \/ \E c \in DOMAIN employees, cf \in PrefixCfInputs :
          create_employee(c, <<"S">>, "employee", NullInt, cf)
    \/ \E c \in DOMAIN employees, x \in PrefixCriteria :
          get_employees(c, 0, DefaultLimit, NullStr, NullStr, <<x>>)
    \/ \E c \in DOMAIN employees, x \in PrefixCriteria :
          get_employees(c, 0, DefaultLimit, x.field, x.value, <<>>)

SpecPrefix == Init /\ [][NextPrefix]_vars

\* criteria that match different employees, and one with an empty value
AndCriteria ==
    { [field |-> <<"custom_", "D">>, value |-> <<"a">>],
      [field |-> <<"custom_", "D">>, value |-> <<"b">>],
      [field |-> <<"custom_", "B">>, value |-> <<"a">>],
      [field |-> <<"custom_", "B">>, value |-> <<>>],
      [field |-> <<"emp_id">>, value |-> <<"1", "0", "0", "1">>],
      [field |-> <<"name">>, value |-> <<"A">>] }

\* employees with instance records, listed under one or two criteria
NextAnd ==
    \/ register_owner(<<"a">>, TRUE)
    \/ \E c \in DOMAIN employees, name \in {<<"S">>, <<"a">>}, cf \in CfInputs :
          create_employee(c, name, "employee", NullInt, cf)
    \/ \E c \in DOMAIN employees, fl \in SeqsUpTo(AndCriteria, 2) :
          get_employees(c, 0, DefaultLimit, NullStr, NullStr, fl)

SpecAnd == Init /\ [][NextAnd]_vars

-----------------------------------------------------------------------------
(* Claims about the stores *)

StrLiteral(k) == <<"S", "T", "R", Digits[k + 1]>>

\* C7: while a tenant has deleted no store, its k-th successful
\* create_store stores store_sequence = k and answers store_id "STR" + k,
\* whatever the other tenants created.
C7_KthStoreGetsSequenceK ==
    (response.op = "create_store" /\ response.status = 201
        /\ response.bid \notin g_deleted)
    => LET k == g_created[response.bid]
       IN  /\ response.store_sequence = k
           /\ stores[response.id].store_sequence = k
           /\ response.store_id = StrLiteral(k)

\* C7 witness: a tenant's second store gets 2 / "STR2" while another tenant
\* has a store of its own.
C7_Witness ==
    /\ response.op = "create_store" /\ response.status = 201
    /\ response.bid \notin g_deleted
    /\ response.store_sequence = 2
    /\ response.store_id = <<"S", "T", "R", "2">>
    /\ \E i \in DOMAIN stores : stores[i].business_id # TenantStr(response.bid)

\* C9: no two stores of one tenant share a store_sequence, in any state
\* reached by create_store and delete_store calls run one at a time.
C9_SequenceUniquePerTenant ==
    \A i, j \in DOMAIN stores :
        (i # j /\ stores[i].business_id = stores[j].business_id)
        => stores[i].store_sequence # stores[j].store_sequence

-----------------------------------------------------------------------------
(* Claims about instance records and templates *)

\* C2: get_employee returns exactly the (label, value) items of the last
\* custom_fields written for that employee: nothing of an earlier value is
\* left, and after custom_fields = [] there are no custom fields.
C2_ReplaceLeavesNoResidue ==
    (response.op = "get_employee" /\ response.status = 200)
    => /\ response.body.custom_fields = PairsOf(g_last_cf[response.emp_id])
       /\ response.body.custom_fields_none = (g_last_cf[response.emp_id] = <<>>)

\* C2 witness: the only employee ever created had three instance records
\* (labels D and B), was updated to the single item D = a, and get_employee
\* answers that item alone.
C2_Witness ==
    /\ response.op = "get_employee" /\ response.status = 200
    /\ emp_seq = EmpIdStart + 1
    /\ label_seq = 5 /\ DOMAIN labels = {4}
    /\ response.body.custom_fields = {<< <<"D">>, <<"a">>, 1 >>}

\* the template value sets a state stores
StoredTemplates ==
    {<<labels[i].business_id, labels[i].label_name, labels[i].label_values>> :
        i \in {j \in DOMAIN labels : labels[j].emp_id = NullInt}}

\* C3: a define_custom_label call that repeats the call before it (same
\* tenant, label_name and values) leaves the stored template value sets as
\* they were and reports new_values_added = 0.
C3_DefineIdempotent ==
    [][(/\ response.op = "define_custom_label" /\ response.status = 201
        /\ response'.op = "define_custom_label"
        /\ response'.bid = response.bid
        /\ response'.label_name = response.label_name
        /\ response'.req_values = response.req_values)
       => (/\ response'.status = 201
           /\ response'.path = "updated"
           /\ response'.new_values_added = 0
           /\ StoredTemplates' = StoredTemplates)]_vars

\* C3 witness: a call with two distinct values (one given twice) found them
\* all stored already and added none.
C3_Witness ==
    /\ response.op = "define_custom_label" /\ response.status = 201
    /\ response.path = "updated" /\ response.new_values_added = 0
    /\ Len(response.req_values) = 3
    /\ <<response.bid, response.label_name, valid_values_of(response.req_values)>>
           \in StoredTemplates

\* C4: get_label_values(T, L) contains every value that was ever recorded
\* as an instance value of (T, L).
C4_EverRecordedIsListed ==
    (response.op = "get_label_values")
    => \A t \in g_ever :
          (t[1] = response.bid /\ t[2] = response.label_name) => t[3] \in response.values

\* C4 amended: get_label_values(T, L) contains every value that an instance
\* record of (T, L) holds when it is called, template or not.
C4_CurrentInstanceIsListed ==
    (response.op = "get_label_values")
    => \A t \in InstanceValues(labels) :
          (t[1] = response.bid /\ t[2] = response.label_name) => t[3] \in response.values

\* C4 witness: no template of the label exists, an instance value is
\* listed, and a value recorded earlier is gone.
C4_Witness ==
    /\ response.op = "get_label_values"
    /\ TemplatesOf(response.bid, response.label_name) = {}
    /\ response.values # {}
    /\ \E t \in g_ever : /\ t[1] = response.bid /\ t[2] = response.label_name
                         /\ t[3] \notin response.values

-----------------------------------------------------------------------------
(* Claims about get_employees *)

\* the criteria a request carries: the items of the filter list and the
\* legacy pair
RequestCriteria(r) ==
    {r.filters[i] : i \in 1..Len(r.filters)}
    \cup (IF r.filter_field # NullStr
          THEN {[field |-> r.filter_field, value |-> r.filter_value]} ELSE {})

\* a custom-field criterion whose label query finds no instance record
ZeroMatchCustom(bid, item) ==
    /\ IsCustomField(item.field)
    /\ matching_ids(bid, item.field, item.value) = {}

C6_SingleCustomCriterionIsContainment ==
    (/\ response.op = "get_employees" /\ response.status = 200
     /\ response.skip = 0 /\ response.limit = DefaultLimit
     /\ response.filter_field = NullStr
     /\ Len(response.filters) = 1
     /\ IsCustomField(response.filters[1].field)
     /\ Truthy(response.filters[1].value))
    => {d.emp_id : d \in response.items} =
           {e \in DOMAIN employees :
               /\ employees[e].business_id = response.bid
               /\ \E i \in DOMAIN labels :
                     /\ labels[i].emp_id = e
                     /\ labels[i].business_id = response.bid
                     /\ labels[i].label_name = Tail(response.filters[1].field)
                     /\ ContainsCI(labels[i].label_value, response.filters[1].value)}

-----------------------------------------------------------------------------
(* Claims about add_products *)

RECURSIVE FailingIndexes(_, _, _, _)
\* the items of a batch that fail when the items are taken in order: an
\* item whose barcode or SKU a stored product or an earlier accepted item
\* has, or whose insert violates the unique productid
FailingIndexes(batch, idx, table, seq) ==
    IF idx >= Len(batch) THEN {}
    ELSE LET item == batch[idx + 1]
             dup == \/ existing_barcode(table, item.barcode)
                    \/ (Truthy(item.sku) /\ existing_sku(table, item.sku))
         IN  IF dup THEN {idx} \cup FailingIndexes(batch, idx + 1, table, seq)
             ELSE IF productid_taken(table, ProductIdOf(seq), seq)
             THEN {idx} \cup FailingIndexes(batch, idx + 1, table, seq + 1)
             ELSE FailingIndexes(batch, idx + 1,
                                 Insert(table, seq, [business_id |-> <<>>,
                                                     productid |-> ProductIdOf(seq),
                                                     barcode |-> item.barcode,
                                                     sku |-> item.sku]),
                                 seq + 1)

NamedIndexes(r) ==
    {r.validation_errors[i].product_index : i \in 1..Len(r.validation_errors)}

\* C8: an add_products call with a failing item answers 400, its
\* validation_errors name the index of every failing item, and the product
\* table is what it was before the call.
C8_AddProductsAllOrNothing ==
    (/\ response.op = "add_products"
     /\ FailingIndexes(response.batch, 0, response.before, response.seq_before) # {})
    => /\ response.status = 400
       /\ products = response.before
       /\ NamedIndexes(response) =
              FailingIndexes(response.batch, 0, response.before, response.seq_before)

\* the part of C8 about persistence alone: a call that reports errors
\* leaves the product table as it was
C8_ErrorsLeaveTableUnchanged ==
    (response.op = "add_products" /\ Len(response.validation_errors) > 0)
    => (response.status = 400 /\ products = response.before)

-----------------------------------------------------------------------------
(* Claims about templates under concurrency *)

\* C10: in every state, whatever the interleaving of define_custom_label
\* requests, a (tenant, label_name) has at most one template record.
C10_AtMostOneTemplate ==
    \A i, j \in DOMAIN labels :
        (/\ labels[i].emp_id = NullInt /\ labels[j].emp_id = NullInt
         /\ labels[i].business_id = labels[j].business_id
         /\ labels[i].label_name = labels[j].label_name)
        => i = j

\* C10 witness: a request that had found no template lost the race: its
\* insert was refused and the label has the one template of the other
\* request.
C10_Witness ==
    /\ response.op = "define_custom_label" /\ response.status = 500
    /\ Cardinality(TemplatesOf(response.bid, Strip(response.label_name))) = 1

-----------------------------------------------------------------------------
(* Claims about tenant isolation *)

ReadOps ==
    {"get_employees", "get_employee", "get_stores", "get_store", "get_products",
     "get_product_by_id", "get_product_by_productid", "search_products",
     "get_custom_field_labels", "get_label_values"}

\* C1: every row whose data a list, filter or get operation returns - the
\* store an employee dict names included - has the business_id of the
\* caller's tenant.
C1_ReadsReturnOwnTenantOnly ==
    (response.op \in ReadOps)
    => \A row \in response.rows : row[3] = TenantStr(response.bid)

\* the same for every read but get_employee
C1_OtherReadsReturnOwnTenantOnly ==
    (response.op \in ReadOps \ {"get_employee"})
    => \A row \in response.rows : row[3] = TenantStr(response.bid)

-----------------------------------------------------------------------------
(* Claims about define_custom_label *)

\* the values a request adds to the stored ones
RequestValues(r) == valid_values_of(r.req_values)

\* C11: a define_custom_label call that finds a template stores the union of
\* the stored values and the trimmed, non-empty new values, equal strings
\* only being merged; new_values_added is the number of new values that were
\* not stored, total_values the size of the stored set.
C11_MergeIsSetUnion ==
    [][(/\ response'.op = "define_custom_label"
        /\ response'.path = "updated")
       => \E t \in TemplatesOf(response'.bid, Strip(response'.label_name)) :
             /\ labels'[t].label_values =
                    labels[t].label_values \cup RequestValues(response')
             /\ response'.new_values_added =
                    Cardinality(RequestValues(response') \ labels[t].label_values)
             /\ response'.total_values = Cardinality(labels'[t].label_values)]_vars

\* C11 witness: a request with the values b and a met a template that held
\* a and A: b alone was new and the template holds a, A and b.
C11_Witness ==
    /\ response.op = "define_custom_label" /\ response.path = "updated"
    /\ response.new_values_added = 1 /\ response.total_values = 3
    /\ <<response.bid, Strip(response.label_name), {<<"a">>, <<"A">>, <<"b">>}>>
           \in StoredTemplates

\* a request the handler has to reject
InvalidDefine(r) ==
    \/ Len(Strip(r.label_name)) = 0
    \/ values_rejected(r.req_values)
    \/ \A i \in 1..Len(r.req_values) :
          r.req_values[i] = NotAStr \/ r.req_values[i] \in {<<>>, Blank}

\* C12: a define_custom_label request with an empty or blank label_name, a
\* missing, empty or non-list values argument or a values list without a
\* non-empty string is answered 400 and no record is created or changed.
C12_InvalidDefineIsRejected ==
    [][(response'.op = "define_custom_label" /\ InvalidDefine(response'))
       => (/\ response'.status = 400
           /\ labels' = labels
           /\ label_seq' = label_seq)]_vars

\* C12 witness: a request whose values list has a blank and a non-string
\* item only was answered 400 while the label has a template.
C12_Witness ==
    /\ response.op = "define_custom_label" /\ response.status = 400
    /\ response.req_values = << Blank, NotAStr >>
    /\ Len(Strip(response.label_name)) > 0
    /\ TemplatesOf(response.bid, Strip(response.label_name)) # {}

-----------------------------------------------------------------------------
(* Claims about the dependence of an operation on other tenants' rows *)

\* the rows of a products table that a tenant owns
OwnProducts(table, bid_str) ==
    [i \in {j \in DOMAIN table : table[j].business_id = bid_str} |-> table[i]]

\* what add_products does with the request of a response on the rows of the
\* caller's tenant alone
AloneOutcome(r) ==
    add_loop(TenantStr(r.bid), r.batch, 0,
             LoopFrom(OwnProducts(r.before, TenantStr(r.bid)), r.seq_before))

\* C13: an add_products call answers, and changes the caller's rows, as it
\* does in the state that has the rows of the caller's tenant only.
C13_AddProductsDependsOnOwnTenantOnly ==
    (response.op = "add_products" /\ Len(response.batch) > 0)
    => /\ response.validation_errors = AloneOutcome(response).errors
       /\ OwnProducts(products, TenantStr(response.bid)) =
              commit_products(AloneOutcome(response))

-----------------------------------------------------------------------------
(* Claims about update_employee *)

\* the instance records of an employee in a table
RecordsOf(table, e) ==
    {i \in DOMAIN table : table[i].emp_id # NullInt /\ table[i].emp_id = e}

\* the multiset of the (label_name, label_value) items of these records
RecordItems(table, e) ==
    {<<table[i].label_name, table[i].label_value,
       Cardinality({j \in RecordsOf(table, e) :
                        /\ table[j].label_name = table[i].label_name
                        /\ table[j].label_value = table[i].label_value})>> :
        i \in RecordsOf(table, e)}

\* C14: every successful update_employee call deletes the instance records
\* of the employee: none of the records that existed before it exists after
\* it.
C14_EveryUpdateDeletesInstances ==
    [][(/\ response'.op = "update_employee" /\ response'.status = 200
        /\ response' # response)
       => RecordsOf(labels', response'.emp_id) \cap RecordsOf(labels, response'.emp_id) = {}]_vars

\* C14 amended: a successful update_employee call whose body has a
\* custom_fields list deletes the records of the employee and creates those
\* of the list; a call without one leaves employee_labels as it is.
C14_UpdateWithCustomFieldsReplacesInstances ==
    [][(/\ response'.op = "update_employee" /\ response'.status = 200
        /\ response' # response)
       => IF response'.has_custom_fields
          THEN /\ RecordsOf(labels', response'.emp_id)
                      \cap RecordsOf(labels, response'.emp_id) = {}
               /\ RecordItems(labels', response'.emp_id) =
                      PairsOf(g_last_cf'[response'.emp_id])
          ELSE labels' = labels]_vars

\* C14 witness: the one employee that exists had the three records of a
\* first list and has the one record of the list of an update.
C14_Witness ==
    /\ response.op = "update_employee" /\ response.status = 200
    /\ response.has_custom_fields
    /\ emp_seq = EmpIdStart + 1
    /\ label_seq = 5 /\ DOMAIN labels = {4}
    /\ labels[4].emp_id = response.emp_id

-----------------------------------------------------------------------------
(* Claims about delete_products_bulk *)

\* the turns of a request at which the id names a product of the caller's
\* tenant that no earlier turn deleted
DeletedTurns(r) ==
    {k \in 1..Len(r.product_ids) :
        /\ r.product_ids[k] \in DOMAIN r.before
        /\ r.before[r.product_ids[k]].business_id = TenantStr(r.bid)
        /\ \A j \in 1..(k - 1) : r.product_ids[j] # r.product_ids[k]}

\* C15: after delete_products_bulk every id that named a product of the
\* caller's tenant at its turn is deleted, whatever happened to the other
\* ids, and no other product is; an absent, foreign or repeated id has a
\* failed entry; results has one entry per id, in order, and
\* successful + failed = total = the length of the list.
C15_BulkDeleteIsPerItem ==
    (response.op = "delete_products_bulk" /\ response.status = 200)
    => /\ Len(response.results) = Len(response.product_ids)
       /\ response.summary.total = Len(response.product_ids)
       /\ response.summary.successful + response.summary.failed = response.summary.total
       /\ response.summary.successful = Cardinality(DeletedTurns(response))
       /\ \A k \in 1..Len(response.product_ids) :
             /\ response.results[k].product_id = response.product_ids[k]
             /\ response.results[k].product_index = k - 1
             /\ response.results[k].status =
                    (IF k \in DeletedTurns(response) THEN "success" ELSE "failed")
       /\ products = Remove(response.before,
                            {response.product_ids[k] : k \in DeletedTurns(response)})

\* C15 witness: one request deleted a product, failed on the repeated id and
\* failed on a product of another tenant, which is still there.
C15_Witness ==
    /\ response.op = "delete_products_bulk" /\ response.status = 200
    /\ Len(response.product_ids) = 3
    /\ response.product_ids[1] = response.product_ids[2]
    /\ response.results[1].status = "success"
    /\ response.results[2].status = "failed"
    /\ response.results[3].status = "failed"
    /\ response.product_ids[3] \in DOMAIN products
    /\ products[response.product_ids[3]].business_id # TenantStr(response.bid)

-----------------------------------------------------------------------------
(* Claims about roles *)

\* the roles of the system
Roles == {"owner", "admin", "manager", "employee"}

\* C16: every Employee row has a role of the closed set owner, admin,
\* manager, employee.
C16_RolesAreOfTheClosedSet ==
    \A e \in DOMAIN employees : employees[e].role \in Roles

-----------------------------------------------------------------------------
(* Claims about the combination of the criteria of get_employees *)

\* the employees a request with the one criterion item selects
AloneIds(bid, item) == filtered_ids(bid, <<item>>, NullStr, NullStr)

\* the employees of the tenant that every criterion of the list selects when
\* it is the only one
EveryCriterionIds(bid, filter_list) ==
    {e \in {x \in DOMAIN employees : employees[x].business_id = bid} :
        \A i \in 1..Len(filter_list) : e \in AloneIds(bid, filter_list[i])}

Reverse(q) == [i \in 1..Len(q) |-> q[Len(q) + 1 - i]]

-----------------------------------------------------------------------------
(* Claims about the custom_labels routes *)

\* the name the label of an answered update has afterwards
NameAfterUpdate(r) ==
    IF Truthy(r.label_name) THEN r.label_name ELSE r.before[r.label_id].label_name

\* C18: after a successful update_custom_label with the values V the stored
\* label_values of that label are V, whatever they were before, and
\* get_custom_label_values answers V for the name of the label.
C18_UpdateOverwritesValues ==
    (response.op = "update_custom_label" /\ response.status = 200)
    => /\ custom_labels[response.label_id].label_values = response.label_values
       /\ first_label_values(custom_labels, response.bid, NameAfterUpdate(response))
              = {response.label_values}

\* C18 witness: an update replaced two stored values by one value that was
\* not the first of them.
C18_Witness ==
    /\ response.op = "update_custom_label" /\ response.status = 200
    /\ Len(response.before[response.label_id].label_values) = 2
    /\ response.before[response.label_id].label_values[1] # response.label_values[1]
    /\ Len(response.label_values) = 1
    /\ custom_labels[response.label_id].label_values = response.label_values

-----------------------------------------------------------------------------
(* Claims about get_label_values *)

\* the values of the templates of (tenant, label) in the table
TemplateValues(bid, label_name) ==
    UNION {labels[i].label_values :
              i \in {j \in DOMAIN labels : /\ labels[j].emp_id = NullInt
                                           /\ labels[j].business_id = bid
                                           /\ labels[j].label_name = label_name}}

\* the values of the instance records of (tenant, label) in the table
RecordedValues(bid, label_name) ==
    {labels[i].label_value :
        i \in {j \in DOMAIN labels : /\ labels[j].emp_id # NullInt
                                     /\ labels[j].business_id = bid
                                     /\ labels[j].label_name = label_name
                                     /\ labels[j].label_value # NullStr}}

\* C19: the list get_label_values answers is strictly ascending (sorted,
\* no value twice) and its values are exactly the values of the template of
\* the caller's tenant for the label together with the non-null values of
\* the tenant's instance records for the label.
C19_LabelValuesAreTheSortedUnion ==
    (response.op = "get_label_values" /\ response.status = 200)
    => /\ \A i \in 1..(Len(response.result) - 1) :
             StrLess(response.result[i], response.result[i + 1])
       /\ {response.result[i] : i \in 1..Len(response.result)} =
              TemplateValues(response.bid, response.label_name)
              \cup RecordedValues(response.bid, response.label_name)

\* C19 witness: the answer lists a template value and a recorded value that
\* is not a template value, while another tenant has a value of the label
\* that the answer leaves out.
C19_Witness ==
    /\ response.op = "get_label_values" /\ response.status = 200
    /\ Len(response.result) >= 2
    /\ TemplateValues(response.bid, response.label_name) # {}
    /\ RecordedValues(response.bid, response.label_name)
           \ TemplateValues(response.bid, response.label_name) # {}
    /\ \E b \in Tenants \ {response.bid} :
          (TemplateValues(b, response.label_name) \cup RecordedValues(b, response.label_name))
              \ {response.result[i] : i \in 1..Len(response.result)} # {}

-----------------------------------------------------------------------------
(* Claims about create_custom_label *)

\* the label of the request existed when the request was answered
NameTaken(r) ==
    \E i \in DOMAIN r.before : /\ r.before[i].business_id = r.bid
                               /\ r.before[i].label_name = r.label_name

\* C20: a create_custom_label request for a name the tenant already has,
\* requests that run concurrently included, is answered with the conflict
\* error of the handler (400, already exists) and leaves custom_labels as
\* it was.
C20_DuplicateCreateIsAConflict ==
    (response.op = "create_custom_label" /\ NameTaken(response))
    => /\ response.status = 400
       /\ response.detail = "already exists"
       /\ custom_labels = response.before

\* the part of C20 on the stored labels: a tenant never has two labels of
\* one name, and an answer other than 201 leaves the table as it was
C20_AtMostOneLabelPerName ==
    /\ \A i, j \in DOMAIN custom_labels :
          (/\ custom_labels[i].business_id = custom_labels[j].business_id
           /\ custom_labels[i].label_name = custom_labels[j].label_name) => i = j
    /\ (response.op = "create_custom_label" /\ response.status # 201)
       => custom_labels = response.before

-----------------------------------------------------------------------------
(* Claims about the Business rows *)

\* C21: a Business row and a new tenant identifier are created by
\* register_owner only: a step that adds a row to business or takes a value
\* of employee_business_id_seq is a register_owner step.
C21_OnlyOwnerRegistrationCreatesBusiness ==
    [][(DOMAIN business' # DOMAIN business \/ bus_seq' # bus_seq)
       => response'.op = "register_owner"]_vars

\* the part of C21 on the rows: no two Business rows have one business_id
C21_OneBusinessRowPerTenant ==
    \A i, j \in DOMAIN business :
        business[i].business_id = business[j].business_id => i = j

\* C29: get_business answers, and update_business and upload_logo change,
\* the Business row of the caller's tenant and no other row.
C29_BusinessIsTenantScoped ==
    (/\ response.op \in {"get_business", "update_business", "upload_logo"}
     /\ response.status = 200)
    => /\ \A t \in response.rows : t[3] = TenantStr(response.bid)
       /\ \A i \in DOMAIN business :
             business[i].business_id # TenantStr(response.bid)
                 => business[i] = response.before[i]

-----------------------------------------------------------------------------
(* Claims about concurrent create_store requests *)

\* C22: the insert of a create_store request whose name is free is never
\* rejected: it commits a store with the sequence number the request read,
\* also when a store of the tenant has that number already.
C22_InsertWithReadSequenceIsNotRejected ==
    [][\A r \in DOMAIN storing :
          (/\ r \notin DOMAIN storing'
           /\ ~StoreNameTaken(TenantStr(employees[storing[r].caller].business_id),
                              storing[r].store_name, NullInt))
          => /\ response'.status = 201
             /\ store_seq \in DOMAIN stores'
             /\ stores'[store_seq].store_sequence = storing[r].next_sequence
             /\ stores'[store_seq].business_id =
                    TenantStr(employees[storing[r].caller].business_id)]_vars

\* C22 witness: two stores of one tenant have the same store_sequence and
\* the same display id, and the second of them was just created.
C22_Witness ==
    /\ response.op = "create_store" /\ response.status = 201
    /\ \E i \in DOMAIN stores :
          /\ i # response.id
          /\ stores[i].business_id = stores[response.id].business_id
          /\ stores[i].store_sequence = stores[response.id].store_sequence
          /\ StoreDisplayId(stores[i].store_sequence) = response.store_id

-----------------------------------------------------------------------------
(* Claims about update_employee next to concurrent reads *)

\* the requests that have deleted records of the employee of the answer and
\* not yet added the new ones
BetweenDeleteAndInsert(r) ==
    {u \in DOMAIN updating : /\ updating[u].emp_id = r.emp_id
                             /\ updating[u].phase = "deleted"
                             /\ updating[u].deleted # {}}

\* C23: a get_employee that runs while an update_employee of the employee
\* is between its delete and its inserts observes the employee with none of
\* its custom fields.
C23_ReaderObservesNoCustomFields ==
    (/\ response.op = "get_employee" /\ response.status = 200
     /\ BetweenDeleteAndInsert(response) # {})
    => response.body.custom_fields = {}

\* C23 amended: a get_employee that runs while an update_employee of the
\* employee is between its delete and its inserts observes all the records
\* of the last committed list of the employee.
C23_ReaderObservesTheCommittedList ==
    (/\ response.op = "get_employee" /\ response.status = 200
     /\ BetweenDeleteAndInsert(response) # {})
    => /\ response.body.custom_fields = PairsOf(g_last_cf[response.emp_id])
       /\ response.body.custom_fields # {}

\* C23 witness: a get_employee answered with custom fields while an update
\* of the employee with another, non-empty list has run its delete.
C23_Witness ==
    /\ response.op = "get_employee" /\ response.status = 200
    /\ \E u \in BetweenDeleteAndInsert(response) :
          /\ Len(updating[u].pairs) > 0
          /\ PairsOf(updating[u].pairs) # response.body.custom_fields
    /\ response.body.custom_fields # {}

-----------------------------------------------------------------------------
(* Claims about the emp_id criterion of get_employees *)

\* the value of the emp_id criterion of a request that has no other one
EmpIdCriterion(r) ==
    IF Len(r.filters) = 1 /\ r.filters[1].field = <<"emp_id">> THEN r.filters[1].value
    ELSE IF Len(r.filters) = 0 /\ r.filter_field = <<"emp_id">> THEN r.filter_value
    ELSE NullStr

\* C24: under an emp_id criterion get_employees returns only the employee of
\* the tenant whose emp_id equals the value, and nothing when there is none:
\* a value that is not a number names no employee.
C24_EmpIdCriterionMatchesExactly ==
    (/\ response.op = "get_employees" /\ response.status = 200
     /\ Truthy(EmpIdCriterion(response)))
    => {d.emp_id : d \in response.items}
          = {e \in DOMAIN employees : /\ employees[e].business_id = response.bid
                                      /\ IntToStr(e) = EmpIdCriterion(response)}

-----------------------------------------------------------------------------
(* Claims about the bulk loading of get_employees *)

\* C25: every employee of a get_employees page has the custom_fields,
\* store_id_display and store_name that get_employee returns for that
\* employee in the same state.
C25_BulkHydrationEqualsPerEntityLoading ==
    (response.op = "get_employees" /\ response.status = 200)
    => \A d \in response.items :
          d = EmpDict(d.emp_id, StoreOfEmployee(d.emp_id), LabelsOfEmployee(d.emp_id))

-----------------------------------------------------------------------------
(* Claims about the one-time codes *)

\* C26: a code is single-use: after verify_otp has succeeded for an email
\* the entry is gone, and every later verify_otp for that email returns None
\* until store_otp is called for it again.
C26_OtpIsSingleUse ==
    /\ \A u \in g_used : u[1] \notin DOMAIN otp_storage
    /\ (/\ response.op = "verify_otp"
        /\ \E u \in response.used : u[1] = response.email)
       => response.result = None

\* C26 witness: the code and purpose that were verified are presented once
\* more and are refused.
C26_Witness ==
    /\ response.op = "verify_otp"
    /\ <<response.email, response.otp, response.purpose>> \in response.used
    /\ response.result = None

\* C27: an entry expires OTP_EXPIRY_MINUTES after it was stored: a verify_otp
\* after expires_at returns None, correct code and purpose included, and
\* removes the entry; a verify_otp with the correct code and purpose at or
\* before expires_at returns the user id.
C27_OtpExpires ==
    /\ response.op = "store_otp"
       => otp_storage[response.email].expires_at = response.at + OTP_EXPIRY_MINUTES
    /\ (response.op = "verify_otp" /\ response.found)
       => /\ response.at > response.entry.expires_at
             => /\ response.result = None
                /\ response.email \notin DOMAIN otp_storage
          /\ (/\ response.at <= response.entry.expires_at
              /\ response.otp = response.entry.otp
              /\ response.purpose = response.entry.purpose)
             => response.result = response.entry.user_id

\* C27 witness: the correct code and purpose are refused one minute after
\* expires_at.
C27_Witness ==
    /\ response.op = "verify_otp" /\ response.found
    /\ response.at = response.entry.expires_at + 1
    /\ response.otp = response.entry.otp
    /\ response.purpose = response.entry.purpose
    /\ response.result = None
    /\ response.email \notin DOMAIN otp_storage

-----------------------------------------------------------------------------
(* Claims about the role of the caller of update_employee *)

\* C28: an update_employee request of a caller with role 'employee' changes
\* the role of no employee, the caller's own included.
C28_EmployeeCannotChangeARole ==
    [][(/\ response'.op = "update_employee"
        /\ response'.caller \in DOMAIN employees
        /\ employees[response'.caller].role = "employee")
       => \A e \in DOMAIN employees \cap DOMAIN employees' :
             employees'[e].role = employees[e].role]_vars

-----------------------------------------------------------------------------
(* Claims about the label name of a custom criterion *)

\* the criterion of a request that has one
OnlyCriterion(r) ==
    IF Len(r.filters) = 1 THEN r.filters[1]
    ELSE [field |-> r.filter_field, value |-> r.filter_value]

\* the employees of the tenant with an instance record of the label name
\* whose value contains the value
EmployeesWithRecord(bid, label_name, value) ==
    {e \in DOMAIN employees :
        /\ employees[e].business_id = bid
        /\ \E i \in DOMAIN labels : /\ labels[i].emp_id = e
                                    /\ labels[i].business_id = bid
                                    /\ labels[i].label_name = label_name
                                    /\ ILikeContains(labels[i].label_value, value)}

\* C30: a criterion with field 'custom_' + L is resolved to the label name
\* L, names that contain 'custom_' included: get_employees returns the
\* employees with a matching instance record of label L and of no other
\* label.
C30_CustomCriterionNamesTheLabel ==
    (/\ response.op = "get_employees" /\ response.status = 200
     /\ IsCustomField(OnlyCriterion(response).field)
     /\ Truthy(OnlyCriterion(response).value))
    => {d.emp_id : d \in response.items}
          = EmployeesWithRecord(response.bid, Tail(OnlyCriterion(response).field),
                                OnlyCriterion(response).value)

====
